---- MODULE Spec2Model ----
(***************************************************************************)
(* Cluster planarity by synchronized planarity (OGDF):                     *)
(* src/src/ogdf/cluster/sync_plan/ClusterPlanarity.cpp.                    *)
(*                                                                         *)
(* The model follows one call of one of the three module entry points:    *)
(* the SyncPlan constructor flattens the cluster hierarchy into pipes,    *)
(* makeReduced / solveReduced answer, and embed undoes UndoInitCluster.   *)
(*                                                                         *)
(* A graph is a record [adj, ends, origin, nodeIdCount, edgeIdCount]: adj *)
(* maps every node to its adjacency list, an adjacency entry is <<e, side>>*)
(* (side 0 = source, 1 = target), ends maps every edge to the pair of     *)
(* nodes its two entries sit at, and origin records for every edge the    *)
(* edge of the input it is a piece of.  A cluster graph is a record       *)
(* [nodes, adjEntries, adjAvailable] over the clusters 0..nClusters, the  *)
(* tree being given by parent.                                             *)
(*                                                                         *)
(* Further specifications, each on a record-valued variable of its own:   *)
(* SpecRot (NodeSPQRRotation::mapGraph), SpecBFS and SpecBFSRun           *)
(* (FilteringBFS and its iterator), SpecList (GraphListBase), SpecPack    *)
(* (TileToRowsCCPacker::callGeneric), SpecShaper (the loop of bend bounds *)
(* of OrthoShaper::call).                                                  *)
(***************************************************************************)
EXTENDS Integers, Sequences, FiniteSets, TLC

\* Number of non-root clusters of the largest cluster tree explored.
MaxClusters == 2
\* Number of nodes of the input graph.
MaxNodes == 3

\* Index of the root cluster.
Root == 0
\* FrozenCluster's default for index, parent and parent_node.
NoIndex == -1

VARIABLES
    entry,        \* the module entry point that is running
    m_augmentation, \* TRUE iff the module's m_augmentation is not nullptr
    parent,       \* parent[c], c a non-root cluster: the cluster tree
    input,        \* the caller's graph and node assignment before the call
    pc,           \* position of the entry point
    G,            \* the graph SyncPlan works on
    CG,           \* the cluster graph SyncPlan works on
    matchings,    \* PMatching: the set of registered pipes <<cn, pn>>
    undo_stack,   \* SyncPlan::undo_stack, bottom first
    op,           \* the UndoInitCluster record: its frozen cluster list
    fc_it,        \* reverse iterator into op: 0 is rend()
    todo,         \* clusters the running loop has still to visit
    processed,    \* history: clusters in the order the constructor took them
    count,        \* history: the constructor's count for each cluster taken
    pipeOf,       \* history: the pair <<cn, pn>> created for each cluster taken
    mr,           \* what makeReduced returned: "true", "false", "none" before
    sr,           \* what solveReduced returned: "true", "false", "none" before
    embedCalled,  \* TRUE once embed has been invoked
    result,       \* what the entry point returned: "true", "false", "none" before
    augmentation, \* contents of *m_augmentation (pairs of adjacency entries)
    callerG,      \* clusterPlanarEmbed: the caller's graph (SyncPlan gets a copy)
    callerCG,     \* clusterPlanarEmbed: the caller's cluster graph
    bicomps,      \* UndoInitCluster::undo: the biconnected-component tag of each edge
    undoPos,      \* UndoInitCluster::undo: position of the loop in the frozen list
    fault,        \* "none", or the assertion / invalid access that stopped the run
    reductions,   \* what the reduction records on undo_stack restore, oldest first
    rot,          \* a NodeSPQRRotation: its PC-tree and the handles stored with it
    bfs,          \* a FilteringBFS: its queue, marks and filters
    list,         \* a GraphListBase and the link fields of its elements
    shaper,       \* an OrthoShaper::call: the bend bound tried and the outcome
    packer        \* a TileToRowsCCPacker::call: boxes, rows and offsets

\* The state of a call of a cluster planarity entry point.
clusterVars == <<entry, m_augmentation, parent, input, pc, G, CG, matchings, undo_stack,
          op, fc_it, todo, processed, count, pipeOf, mr, sr, embedCalled,
          result, augmentation, callerG, callerCG, bicomps, undoPos, fault,
          reductions>>

\* The objects a cluster planarity call does not touch.
otherVars == <<rot, bfs, list, shaper, packer>>

vars == <<clusterVars, otherVars>>

\* The value of an object that is not part of the behaviour looked at.
Idle == [pc |-> "idle"]

-----------------------------------------------------------------------------
(* Sequences *)

RECURSIVE SeqRev(_)
SeqRev(s) == IF s = <<>> THEN <<>> ELSE Append(SeqRev(Tail(s)), Head(s))

Range(s) == {s[i] : i \in 1..Len(s)}

Remove(s, x) == SelectSeq(s, LAMBDA y : y # x)

Replace(s, old, new) == [i \in 1..Len(s) |-> IF s[i] = old THEN new ELSE s[i]]

RECURSIVE Concat(_)
Concat(ss) == IF ss = <<>> THEN <<>> ELSE Head(ss) \o Concat(Tail(ss))

-----------------------------------------------------------------------------
(* Graph: adjacency entries, nodes and edges *)

twin(a) == <<a[1], 1 - a[2]>>

theNode(g, a) == g.ends[a[1]][a[2] + 1]

twinNode(g, a) == theNode(g, twin(a))

degree(g, n) == Len(g.adj[n])

\* Graph::newNode: the new node gets the next index and no entry.
newNode(g) ==
    [g EXCEPT !.adj = (g.nodeIdCount :> <<>>) @@ g.adj,
              !.nodeIdCount = g.nodeIdCount + 1]

\* Graph::reverseAdjEdges(v): reverses the adjacency list of v.
reverseAdjEdges(g, v) == [g EXCEPT !.adj[v] = SeqRev(g.adj[v])]

\* splitEdge(G, adj, new_adj_to_node, new_adj_to_twin): the edge of adj keeps
\* adj and now ends at new_adj_to_node; a new edge joins new_adj_to_twin with
\* the former twin node, in the place the old entry had in its list.
splitEdge(g, a, new_adj_to_node, new_adj_to_twin) ==
    LET e  == a[1]
        t  == twin(a)
        n  == theNode(g, t)
        e2 == g.edgeIdCount
        adj1 == [g.adj EXCEPT ![n] = Replace(@, t, <<e2, 1>>)]
        adj2 == [adj1 EXCEPT ![new_adj_to_node] = Append(@, t)]
        adj3 == [adj2 EXCEPT ![new_adj_to_twin] = Append(@, <<e2, 0>>)]
    IN  [g EXCEPT !.adj = adj3,
                  !.ends = (e2 :> <<new_adj_to_twin, n>>)
                           @@ [g.ends EXCEPT ![e][t[2] + 1] = new_adj_to_node],
                  !.origin = (e2 :> g.origin[e]) @@ g.origin,
                  !.edgeIdCount = e2 + 1]

\* joinEdge: the edge of u_adj survives, its entry u_adj moves to the place of
\* the twin of v_adj; the edge of v_adj is deleted.
joinEdge(g, u_adj, v_adj) ==
    LET v_n_adj == twin(v_adj)
        v_n == theNode(g, v_n_adj)
        u == theNode(g, u_adj)
        v == theNode(g, v_adj)
        adj1 == [g.adj EXCEPT ![u] = Remove(@, u_adj), ![v] = Remove(@, v_adj)]
        adj2 == [adj1 EXCEPT ![v_n] = Replace(@, v_n_adj, u_adj)]
        ends1 == [g.ends EXCEPT ![u_adj[1]][u_adj[2] + 1] = v_n]
    IN  [g EXCEPT !.adj = adj2,
                  !.ends = [e \in DOMAIN ends1 \ {v_adj[1]} |-> ends1[e]],
                  !.origin = [e \in DOMAIN ends1 \ {v_adj[1]} |-> g.origin[e]]]

RECURSIVE joinEdges(_, _)
joinEdges(g, bij) ==
    IF bij = <<>> THEN g
    ELSE joinEdges(joinEdge(g, Head(bij)[1], Head(bij)[2]), Tail(bij))

\* Graph::delNode of a node whose edges are gone.
delNode(g, v) == [g EXCEPT !.adj = [n \in DOMAIN g.adj \ {v} |-> g.adj[n]]]

\* join(G, u, v, bij): merges the paired edges, then deletes u and v.
join(g, u, v, bij) == delNode(delNode(joinEdges(g, bij), u), v)

-----------------------------------------------------------------------------
(* ClusterGraph *)

Clusters(par) == {Root} \cup DOMAIN par

parentIndex(par, c) == IF c = Root THEN NoIndex ELSE par[c]

RECURSIVE SetToSortedSeq(_)
SetToSortedSeq(S) ==
    IF S = {} THEN <<>>
    ELSE LET m == CHOOSE x \in S : \A y \in S : x <= y
         IN  <<m>> \o SetToSortedSeq(S \ {m})

children(par, c) == SetToSortedSeq({d \in DOMAIN par : par[d] = c})

\* The post-order list of the clusters below and including c
\* (firstPostOrderCluster / pSucc): children before parents, root last.
RECURSIVE postOrder(_, _)
postOrder(par, c) ==
    LET ch == children(par, c)
    IN  Concat([i \in 1..Len(ch) |-> postOrder(par, ch[i])]) \o <<c>>

RECURSIVE ancestors(_, _)
ancestors(par, c) ==
    IF c = Root THEN {} ELSE {par[c]} \cup ancestors(par, par[c])

descendants(par, c) == {d \in DOMAIN par : c \in ancestors(par, d)}

clusterOf(cg, n) == CHOOSE c \in DOMAIN cg.nodes : n \in Range(cg.nodes[c])

\* ClusterGraph::reassignNode(v, c): v leaves its cluster's node list and is
\* appended to the node list of c.
reassignNode(cg, v, c) ==
    LET without == [d \in DOMAIN cg.nodes |-> Remove(cg.nodes[d], v)]
    IN  [cg EXCEPT !.nodes = [without EXCEPT ![c] = Append(@, v)]]

\* A node deleted from the graph leaves the cluster graph.
unassignNode(cg, v) ==
    [cg EXCEPT !.nodes = [d \in DOMAIN cg.nodes |-> Remove(cg.nodes[d], v)]]

-----------------------------------------------------------------------------
(* PMatching *)

\* PMatching::getTwin(n): the pipe partner of n.
getTwin(m, n) ==
    LET p == CHOOSE q \in m : q[1] = n \/ q[2] = n
    IN  IF p[1] = n THEN p[2] ELSE p[1]

\* PMatching::getIncidentEdgeBijection(u, out): the entries of u in list order,
\* each paired with the entry of the twin at the mirrored position.
getIncidentEdgeBijection(g, m, u) ==
    LET v == getTwin(m, u)
        d == degree(g, u)
    IN  [i \in 1..d |-> <<g.adj[u][i], g.adj[v][d + 1 - i]>>]

\* PMatching::removeMatching(n, t).
removeMatching(m, n, t) == m \ {<<n, t>>, <<t, n>>}

-----------------------------------------------------------------------------
(* The inputs of a call *)

EntryPoints == {"isClusterPlanarDestructive",
                "clusterPlanarEmbedClusterPlanarGraph",
                "clusterPlanarEmbed"}

\* Cluster trees with k non-root clusters 1..k, each below a smaller index.
Trees(k) == {par \in [1..k -> 0..k] : \A c \in 1..k : par[c] < c}

InputNodes == 0..(MaxNodes - 1)

\* Node assignments, up to renaming of the nodes: nodes of one cluster are
\* consecutive, in the order of the cluster's node list.
Assignments(k) ==
    {a \in [InputNodes -> 0..k] :
        \A n \in InputNodes : \A m \in InputNodes : n < m => a[n] <= a[m]}

NodePairs == {p \in InputNodes \X InputNodes : p[1] < p[2]}

PairBefore(p, q) == p[1] < q[1] \/ (p[1] = q[1] /\ p[2] <= q[2])

RECURSIVE SortPairs(_)
SortPairs(S) ==
    IF S = {} THEN <<>>
    ELSE LET m == CHOOSE x \in S : \A y \in S : PairBefore(x, y)
         IN  <<m>> \o SortPairs(S \ {m})

\* The graph with the given edges, created in the order of the sequence: edge
\* i - 1 joins es[i][1] (source) and es[i][2] (target), every adjacency list
\* holds the entries in the order the edges were created.
MakeGraph(es) ==
    [adj |-> [n \in InputNodes |->
                Concat([i \in 1..Len(es) |->
                    IF es[i][1] = n THEN << <<i - 1, 0>> >>
                    ELSE IF es[i][2] = n THEN << <<i - 1, 1>> >>
                    ELSE <<>>])],
     ends |-> [e \in 0..(Len(es) - 1) |-> es[e + 1]],
     origin |-> [e \in 0..(Len(es) - 1) |-> e],
     nodeIdCount |-> MaxNodes,
     edgeIdCount |-> Len(es)]

\* The nodes assigned to c or to a cluster below c.
inside(par, a, c) ==
    {n \in DOMAIN a : a[n] = c \/ a[n] \in descendants(par, c)}

\* The edges of g with exactly one end inside c.
crossingEdges(g, par, a, c) ==
    {e \in DOMAIN g.ends :
        (g.ends[e][1] \in inside(par, a, c)) # (g.ends[e][2] \in inside(par, a, c))}

\* A ClusterGraph whose boundaries were never computed.
emptyBoundaries(par, a) ==
    [nodes |-> [c \in Clusters(par) |->
                    SetToSortedSeq({n \in DOMAIN a : a[n] = c})],
     adjEntries |-> [c \in Clusters(par) |-> <<>>],
     adjAvailable |-> FALSE]

assignment(cg) ==
    [n \in UNION {Range(cg.nodes[c]) : c \in DOMAIN cg.nodes} |-> clusterOf(cg, n)]

-----------------------------------------------------------------------------
(* UndoInitCluster *)

\* A constructor that skips lines 124-126 and freezes no node lists.
UndoInitCluster_NoNodes(par, cg) ==
    LET po == postOrder(par, Root)
    IN  SeqRev([i \in 1..Len(po) |->
            [index |-> po[i],
             parent |-> parentIndex(par, po[i]),
             parent_node |-> NoIndex,
             nodes |-> <<>>]])

\* A constructor that appends each frozen cluster at the back of the list.
UndoInitCluster_PushBack(par, cg) ==
    LET po == postOrder(par, Root)
    IN  [i \in 1..Len(po) |->
            [index |-> po[i],
             parent |-> parentIndex(par, po[i]),
             parent_node |-> NoIndex,
             nodes |-> cg.nodes[po[i]]]]

\* UndoInitCluster::UndoInitCluster: one FrozenCluster per cluster, pushed to
\* the front while walking the clusters in post-order.
UndoInitCluster(par, cg) ==
    LET po == postOrder(par, Root)
    IN  SeqRev([i \in 1..Len(po) |->
            [index |-> po[i],
             parent |-> parentIndex(par, po[i]),
             parent_node |-> NoIndex,
             nodes |-> cg.nodes[po[i]]]])

-----------------------------------------------------------------------------
(* SyncPlan::SyncPlan *)

\* The augmentation pointer the entry point hands to SyncPlan: TRUE iff not null.
augmentationOf(ep, m_aug) ==
    IF ep = "isClusterPlanarDestructive" THEN FALSE ELSE m_aug

\* A walk that visits the non-root clusters parents first.
upToRoot_ParentsFirst(po) == SeqRev(SelectSeq(po, LAMBDA c : c # Root))

\* The clusters the constructor's loops visit: from firstPostOrderCluster along
\* pSucc up to, but excluding, the root.
RECURSIVE upToRoot(_)
upToRoot(po) ==
    IF po = <<>> \/ Head(po) = Root THEN <<>> ELSE <<Head(po)>> \o upToRoot(Tail(po))

\* A constructor that puts pn into the root, whatever the parent of c is.
grayNodes_PnToRoot(g, cg, par, c) ==
    LET cn == g.nodeIdCount
        pn == g.nodeIdCount + 1
    IN  [G |-> newNode(newNode(g)),
         CG |-> reassignNode(reassignNode(cg, cn, c), pn, Root),
         cn |-> cn,
         pn |-> pn]

\* The two gray nodes of c: cn goes to c, pn to the parent of c.
grayNodes(g, cg, par, c) ==
    LET cn == g.nodeIdCount
        pn == g.nodeIdCount + 1
    IN  [G |-> newNode(newNode(g)),
         CG |-> reassignNode(reassignNode(cg, cn, c), pn, par[c]),
         cn |-> cn,
         pn |-> pn]

\* A selection without the test of line 275: every entry of n.
crossingAdj_All(g, cg, c, n) == g.adj[n]

\* The perimeter-crossing entries of n: those whose twin node is not in c.
crossingAdj(g, cg, c, n) ==
    SelectSeq(g.adj[n], LAMBDA a : c # clusterOf(cg, twinNode(g, a)))

\* A loop that splits at adj instead of adj->twin().
RECURSIVE splitAll_NoTwin(_, _, _, _)
splitAll_NoTwin(g, as, pn, cn) ==
    IF as = <<>> THEN g
    ELSE splitAll_NoTwin(splitEdge(g, Head(as), pn, cn), Tail(as), pn, cn)

\* Lines 285-287: every collected entry's edge is split at the entry's twin.
RECURSIVE splitAll(_, _, _, _)
splitAll(g, as, pn, cn) ==
    IF as = <<>> THEN g
    ELSE splitAll(splitEdge(g, twin(Head(as)), pn, cn), Tail(as), pn, cn)

\* The loop over the nodes ns of c: every node but cn has its crossing edges
\* split; the result is the graph and the number of crossing entries found.
RECURSIVE reroute(_, _, _, _, _, _, _)
rerouteNode(g, cg, c, ns, cn, pn, cnt, adjEntries) ==
    reroute(splitAll(g, adjEntries, pn, cn), cg, c, Tail(ns), cn, pn,
            cnt + Len(adjEntries))

reroute(g, cg, c, ns, cn, pn, cnt) ==
    IF ns = <<>> THEN [G |-> g, count |-> cnt]
    ELSE IF Head(ns) = cn THEN reroute(g, cg, c, Tail(ns), cn, pn, cnt)
    ELSE rerouteNode(g, cg, c, ns, cn, pn, cnt, crossingAdj(g, cg, c, Head(ns)))

\* A constructor that never reverses pn's list.
mirrorParent_Never(g, cnt, pn) == g

\* pn's adjacency list is reversed unless no crossing edge was found.
mirrorParent(g, cnt, pn) == IF cnt = 0 THEN g ELSE reverseAdjEdges(g, pn)

\* A flattening that moves only the front node of every cluster (an if for
\* the while of line 305).
emptyCluster_FrontOnly(cg, c) ==
    IF cg.nodes[c] = <<>> THEN cg ELSE reassignNode(cg, Head(cg.nodes[c]), Root)

\* Lines 305-307: the nodes of c go to the root, front first, until c is empty.
RECURSIVE emptyCluster(_, _)
emptyCluster(cg, c) ==
    IF cg.nodes[c] = <<>> THEN cg
    ELSE emptyCluster(reassignNode(cg, Head(cg.nodes[c]), Root), c)

\* Every cluster but the root hands all its nodes to the root.
RECURSIVE flatten(_, _)
flatten(cg, cs) ==
    IF cs = <<>> THEN cg ELSE flatten(emptyCluster(cg, Head(cs)), Tail(cs))

\* A push that loses the record.
pushUndoOperationAndCheck_Lost(stack, rec) == stack

\* A push that puts the record below the records already there.
pushUndoOperationAndCheck_Bottom(stack, rec) == <<rec>> \o stack

\* Line 312, pushUndoOperationAndCheck(op): the record goes on top of the stack.
pushUndoOperationAndCheck(stack, rec) == Append(stack, rec)

\* Lines 221-231: ResetIndices is pushed, the augmentation list cleared, the
\* UndoInitCluster record built and the reverse iterator set to its last entry.
CtorBegin ==
    /\ pc = "SyncPlan"
    /\ UNCHANGED otherVars
    /\ undo_stack' = Append(undo_stack, "ResetIndices")
    /\ augmentation' = IF augmentationOf(entry, m_augmentation) THEN <<>> ELSE augmentation
    /\ op' = UndoInitCluster(parent, CG)
    /\ fc_it' = Len(op')
    /\ todo' = upToRoot(postOrder(parent, Root))
    /\ pc' = "SyncPlan_clusters"
    /\ UNCHANGED <<reductions, entry, m_augmentation, parent, input, G, CG, matchings, processed,
                   count, pipeOf, mr, sr, embedCalled, result, callerG, callerCG, bicomps, undoPos,
                   fault>>

\* Lines 232-298, one iteration: gray nodes, frozen entry, rerouting, pipe.
CtorCluster ==
    /\ pc = "SyncPlan_clusters"
    /\ UNCHANGED otherVars
    /\ todo # <<>>
    /\ \E c \in {Head(todo)} :
       \E gn \in {grayNodes(G, CG, parent, c)} :
       \E rr \in {reroute(gn.G, gn.CG, c, gn.CG.nodes[c], gn.cn, gn.pn, 0)} :
       \E g2 \in {mirrorParent(rr.G, rr.count, gn.pn)} :
       \E aligned \in {fc_it # 0 /\ op[fc_it].index = c},
          matched \in {degree(g2, gn.cn) = degree(g2, gn.pn)} :
           /\ G' = g2
           /\ CG' = gn.CG
           /\ op' = IF aligned THEN [op EXCEPT ![fc_it].parent_node = gn.cn] ELSE op
           /\ fc_it' = IF fc_it = 0 THEN 0 ELSE fc_it - 1
           /\ matchings' = matchings \cup {<<gn.cn, gn.pn>>}
           /\ processed' = Append(processed, c)
           /\ count' = (c :> rr.count) @@ count
           /\ pipeOf' = (c :> <<gn.cn, gn.pn>>) @@ pipeOf
           /\ fault' = IF ~aligned THEN "OGDF_ASSERT fc_it"
                       ELSE IF ~matched THEN "OGDF_ASSERT matchNodes degree"
                       ELSE fault
           /\ pc' = IF aligned /\ matched THEN pc ELSE "fault"
    /\ todo' = Tail(todo)
    /\ UNCHANGED <<reductions, entry, m_augmentation, parent, input, undo_stack, mr, sr,
                   embedCalled, result, augmentation, callerG, callerCG, bicomps,
                   undoPos>>

\* Lines 299-313: the iterator must stand on the root's entry, the hierarchy is
\* flattened and the UndoInitCluster record pushed.
CtorEnd ==
    /\ pc = "SyncPlan_clusters"
    /\ UNCHANGED otherVars
    /\ todo = <<>>
    /\ LET aligned == fc_it = 1 /\ op[fc_it].index = Root
       IN  /\ fc_it' = IF aligned THEN 0 ELSE fc_it
           /\ fault' = IF aligned THEN fault ELSE "OGDF_ASSERT fc_it"
           /\ CG' = IF aligned THEN flatten(CG, upToRoot(postOrder(parent, Root))) ELSE CG
           /\ undo_stack' = IF aligned
                            THEN pushUndoOperationAndCheck(undo_stack, "UndoInitCluster")
                            ELSE undo_stack
           /\ pc' = IF aligned THEN "makeReduced" ELSE "fault"
    /\ UNCHANGED <<reductions, entry, m_augmentation, parent, input, G, matchings, op, todo,
                   processed, count, pipeOf, mr, sr, embedCalled, result,
                   augmentation, callerG, callerCG, bicomps, undoPos>>

-----------------------------------------------------------------------------
(* UndoInitCluster::undo *)

\* A null adjEntry.
NoAdj == <<NoIndex, NoIndex>>

edgesAt(g, v) == {e \in DOMAIN g.ends : g.ends[e][1] = v \/ g.ends[e][2] = v}

\* The edges reachable from the edges in S along shared end nodes other than v.
RECURSIVE reach(_, _, _)
reach(g, v, S) ==
    LET ns == UNION {{g.ends[e][1], g.ends[e][2]} : e \in S} \ {v}
        T == S \cup UNION {edgesAt(g, n) : n \in ns}
    IN  IF T = S THEN S ELSE reach(g, v, T)

SetMin(S) == CHOOSE x \in S : \A y \in S : x <= y

\* The edges no node of cuts separates from e, among the edges of comp.
block(g, cuts, comp, e) ==
    {f \in comp : \A v \in cuts : f \in reach(g, v, {e})}

\* biconnectedComponents(G, component): two edges get the same tag iff no node
\* separates them; the tag is the smallest edge index of the component.
biconnectedComponents(g) ==
    [e \in DOMAIN g.ends |->
        SetMin(block(g, {v \in DOMAIN g.adj : Len(g.adj[v]) > 1},
                     reach(g, NoIndex, {e}), e))]

\* An undo that computes the tags with or without an augmentation list.
initBicomps_Always(aug, g, old) == biconnectedComponents(g)

\* Lines 162-166: the tag array is initialised and computed iff an
\* augmentation list was given; otherwise it stays as declared.
initBicomps(aug, g, old) == IF aug THEN biconnectedComponents(g) ELSE old

\* A loop that records a pair at every entry.
RECURSIVE boundaryWalk_RecordAll(_, _, _, _, _, _)
boundaryWalk_RecordAll(bij, aug, bc, bc_nr, pred, acc) ==
    IF bij = <<>> THEN acc
    ELSE LET curr == twin(Head(bij)[1])
         IN  boundaryWalk_RecordAll(Tail(bij), aug, bc, bc_nr, curr,
                 [adjEntries |-> Append(acc.adjEntries, curr),
                  augmentation |-> IF aug THEN Append(acc.augmentation, <<pred, curr>>)
                                   ELSE acc.augmentation])

\* A loop that appends the twin of pair.second, an entry of the edge that the
\* join has deleted.
RECURSIVE boundaryWalk_Second(_, _, _, _, _, _)
boundaryWalk_Second(bij, aug, bc, bc_nr, pred, acc) ==
    IF bij = <<>> THEN acc
    ELSE boundaryWalk_Second(Tail(bij), aug, bc, bc_nr, twin(Head(bij)[2]),
             [adjEntries |-> Append(acc.adjEntries, twin(Head(bij)[2])),
              augmentation |-> acc.augmentation])

\* The loop of processCluster over the bijection: every entry's twin is
\* appended to c->adjEntries; a change of component records (pred, curr).
RECURSIVE boundaryWalk(_, _, _, _, _, _)
boundaryWalk(bij, aug, bc, bc_nr, pred, acc) ==
    IF bij = <<>> THEN acc
    ELSE LET first == Head(bij)[1]
             curr == twin(first)
             rec == aug /\ bc[first[1]] # bc_nr
         IN  boundaryWalk(Tail(bij), aug, bc,
                 IF rec THEN bc[first[1]] ELSE bc_nr, curr,
                 [adjEntries |-> Append(acc.adjEntries, curr),
                  augmentation |-> IF rec THEN Append(acc.augmentation, <<pred, curr>>)
                                   ELSE acc.augmentation])

\* UndoInitCluster::processCluster(pq, c, parent_node, bicomps): the pipe of
\* parent_node is removed and joined, the boundary of c rebuilt.  bij.front()
\* is read whenever an augmentation list was given: invalid on an empty bij.
joinAndWalk(g, cg, m, aug, augm, c, n, t, bc, bij) ==
    LET bc_nr == IF aug /\ bij # <<>> THEN bc[Head(bij)[1][1]] ELSE NoIndex
        w == boundaryWalk(bij, aug, bc, bc_nr, NoAdj,
                          [adjEntries |-> cg.adjEntries[c], augmentation |-> augm])
    IN  [G |-> join(g, t, n, bij),
         CG |-> [unassignNode(unassignNode(cg, t), n) EXCEPT !.adjEntries[c] = w.adjEntries],
         matchings |-> removeMatching(m, n, t),
         augmentation |-> w.augmentation,
         invalid |-> aug /\ bij = <<>>]

processCluster(g, cg, m, aug, augm, c, parent_node, bc) ==
    joinAndWalk(g, cg, m, aug, augm, c, parent_node, getTwin(m, parent_node), bc,
                getIncidentEdgeBijection(g, m, getTwin(m, parent_node)))

RECURSIVE reassignAll(_, _, _)
reassignAll(cg, ns, c) ==
    IF ns = <<>> THEN cg ELSE reassignAll(reassignNode(cg, Head(ns), c), Tail(ns), c)

\* The assertions of the OGDF_DEBUG block that the model can state: every
\* entry of a non-root cluster's adjEntries belongs to an edge of the graph.
entriesRegistered(g, cg) ==
    \A c \in DOMAIN cg.adjEntries \ {Root} :
        \A i \in 1..Len(cg.adjEntries[c]) : cg.adjEntries[c][i][1] \in DOMAIN g.ends

\* The loops of the constructor (lines 232-298) over the clusters of todo, as
\* CtorCluster runs them: st holds G, CG, the pipes, the frozen clusters and
\* the iterator over them; ok is false once an assertion has failed.
RECURSIVE constructed(_, _, _)
constructed(st, par, cs) ==
    IF cs = <<>> \/ ~st.ok THEN st
    ELSE LET c == Head(cs)
             gn == grayNodes(st.G, st.CG, par, c)
             rr == reroute(gn.G, gn.CG, c, gn.CG.nodes[c], gn.cn, gn.pn, 0)
             g2 == mirrorParent(rr.G, rr.count, gn.pn)
             aligned == st.fc_it # 0 /\ st.op[st.fc_it].index = c
             matched == degree(g2, gn.cn) = degree(g2, gn.pn)
         IN  constructed(
                 [G |-> g2,
                  CG |-> gn.CG,
                  matchings |-> st.matchings \cup {<<gn.cn, gn.pn>>},
                  op |-> IF aligned THEN [st.op EXCEPT ![st.fc_it].parent_node = gn.cn]
                         ELSE st.op,
                  fc_it |-> IF st.fc_it = 0 THEN 0 ELSE st.fc_it - 1,
                  ok |-> aligned /\ matched],
                 par, Tail(cs))

\* The loop of UndoInitCluster::undo (lines 172-192) over the frozen clusters
\* fcs, as UndoCluster runs it without an augmentation list.
RECURSIVE undone(_, _, _)
undone(st, par, fcs) ==
    IF fcs = <<>> \/ ~st.ok THEN st
    ELSE LET fc == Head(fcs)
             isRoot == fc.index = Root
             asserted == IF isRoot THEN fc.parent = NoIndex
                         ELSE fc.parent >= 0 /\ fc.parent \in Clusters(par)
                              /\ fc.index \in Clusters(par)
             pr == IF isRoot \/ ~asserted
                   THEN [G |-> st.G, CG |-> st.CG, matchings |-> st.matchings]
                   ELSE processCluster(st.G, st.CG, st.matchings, FALSE, <<>>,
                                       fc.index, fc.parent_node, <<>>)
         IN  undone([G |-> pr.G,
                     CG |-> IF asserted THEN reassignAll(pr.CG, fc.nodes, fc.index)
                            ELSE st.CG,
                     matchings |-> pr.matchings,
                     ok |-> asserted],
                    par, Tail(fcs))

\* A run of an embedding entry point on a ClusterGraph whose boundaries were
\* never computed: the constructor, the flattening, and the undo that embed()
\* runs (lines 160-195), with the reduction and the embedding leaving the
\* adjacency lists as they are.  A successful run gives back the graph it was
\* given, up to the id counters; clusterPlanarEmbed runs it on a copy and
\* hands the lists to the caller entry by entry (lines 90-92).
earlierRun(g, par, a) ==
    LET cg == emptyBoundaries(par, a)
        ops == UndoInitCluster(par, cg)
        cs == upToRoot(postOrder(par, Root))
        built == constructed([G |-> g, CG |-> cg, matchings |-> {}, op |-> ops,
                              fc_it |-> Len(ops), ok |-> TRUE], par, cs)
        atRoot == built.ok /\ built.fc_it = 1 /\ built.op[1].index = Root
        flat == [flatten(built.CG, cs) EXCEPT !.adjEntries[Root] = <<>>]
        back == undone([G |-> built.G, CG |-> flat, matchings |-> built.matchings,
                        ok |-> TRUE], par, built.op)
    IN  IF atRoot /\ back.ok /\ entriesRegistered(back.G, back.CG)
        THEN [ok |-> TRUE, G |-> back.G, CG |-> [back.CG EXCEPT !.adjAvailable = TRUE]]
        ELSE [ok |-> FALSE, G |-> g, CG |-> cg]

\* The entries a successful earlier run leaves in c->adjEntries (lines
\* 149-151): for every edge crossing the boundary of c the entry at its outer
\* end, in the order of the bijection of the pipe.
boundaryEntries(g, par, a, c) == earlierRun(g, par, a).CG.adjEntries[c]

MakeClusterGraph(g, par, a, kept) ==
    IF kept
    THEN [emptyBoundaries(par, a) EXCEPT
            !.adjEntries = [c \in Clusters(par) |-> boundaryEntries(g, par, a, c)],
            !.adjAvailable = TRUE]
    ELSE emptyBoundaries(par, a)

\* Lines 160-171, entered from embed() once the records above it are undone:
\* the record is popped, the component tags are computed iff an augmentation
\* list was given, the root's adjEntries are cleared.
UndoBegin ==
    /\ pc = "embed"
    /\ UNCHANGED otherVars
    /\ undo_stack = <<>> \/ undo_stack[Len(undo_stack)] # "UndoReduction"
    /\ embedCalled' = TRUE
    /\ undo_stack' = SubSeq(undo_stack, 1, Len(undo_stack) - 1)
    /\ bicomps' = initBicomps(augmentationOf(entry, m_augmentation), G, bicomps)
    /\ CG' = [CG EXCEPT !.adjEntries[Root] = <<>>]
    /\ undoPos' = 1
    /\ pc' = "undo"
    /\ UNCHANGED <<reductions, entry, m_augmentation, parent, input, G, matchings, op, fc_it, todo,
                   processed, count, pipeOf, mr, sr, result, augmentation, callerG,
                   callerCG, fault>>

\* Lines 172-192, one iteration: the frozen cluster is the root, or its pipe is
\* joined and its boundary rebuilt; then its frozen nodes are assigned to it.
\* Reading the front of an empty bijection (line 147) is undefined: the run
\* stops there (the list's assertion, a crash), after lines 143-144 have
\* removed the pipe and joined, or goes on with a tag that is never used.
UndoCluster ==
    /\ pc = "undo"
    /\ UNCHANGED otherVars
    /\ undoPos <= Len(op)
    /\ \E fc \in {op[undoPos]} :
       \E isRoot \in {fc.index = Root} :
       \E asserted \in {IF isRoot THEN fc.parent = NoIndex
                        ELSE fc.parent >= 0 /\ fc.parent \in Clusters(parent)
                             /\ fc.index \in Clusters(parent)} :
       \E pr \in {IF isRoot \/ ~asserted
                  THEN [G |-> G, CG |-> CG, matchings |-> matchings,
                        augmentation |-> augmentation, invalid |-> FALSE]
                  ELSE processCluster(G, CG, matchings,
                           augmentationOf(entry, m_augmentation), augmentation,
                           fc.index, fc.parent_node, bicomps)} :
       \E stops \in BOOLEAN :
             /\ stops => pr.invalid
             /\ fault' = IF ~asserted THEN "OGDF_ASSERT frozen cluster"
                         ELSE IF pr.invalid THEN "bij.front() of an empty list"
                         ELSE fault
             /\ pc' = IF ~asserted \/ stops THEN "fault" ELSE pc
             /\ G' = pr.G
             /\ matchings' = pr.matchings
             /\ augmentation' = IF stops THEN augmentation ELSE pr.augmentation
             /\ CG' = IF ~asserted THEN CG
                      ELSE IF stops THEN pr.CG
                      ELSE reassignAll(pr.CG, fc.nodes, fc.index)
    /\ undoPos' = undoPos + 1
    /\ UNCHANGED <<reductions, entry, m_augmentation, parent, input, undo_stack, op, fc_it, todo,
                   processed, count, pipeOf, mr, sr, embedCalled, result, callerG,
                   callerCG, bicomps>>

\* Lines 193-203 and the rest of embed(): adjAvailable is set, the debug block
\* checks the entries, and the ResetIndices record is undone and popped.
UndoEnd ==
    /\ pc = "undo"
    /\ UNCHANGED otherVars
    /\ undoPos > Len(op)
    /\ CG' = [CG EXCEPT !.adjAvailable = TRUE]
    /\ LET ok == entriesRegistered(G, CG)
       IN  /\ fault' = IF ok THEN fault ELSE "OGDF_ASSERT edge_reg"
           /\ pc' = IF ok THEN "embedded" ELSE "fault"
           /\ undo_stack' = IF ok THEN <<>> ELSE undo_stack
    /\ UNCHANGED <<reductions, entry, m_augmentation, parent, input, G, matchings, op, fc_it, todo,
                   processed, count, pipeOf, mr, sr, embedCalled, result, augmentation,
                   callerG, callerCG, bicomps, undoPos>>

-----------------------------------------------------------------------------
(* SyncPlanClusterPlanarityModule: the three entry points *)

\* An entry point that calls solveReduced whatever makeReduced returned.
afterMakeReduced_Unchecked(ep, b) == "solveReduced"

\* Where the entry point goes once makeReduced has returned b (the && of
\* lines 54, 60 and 80 evaluates solveReduced only after a true makeReduced).
afterMakeReduced(ep, b) == IF b THEN "solveReduced" ELSE "returned"

\* An entry point that calls embed whatever solveReduced returned.
afterSolveReduced_AlwaysEmbed(ep, b) == "embed"

\* Where the entry point goes once solveReduced has returned b: only the two
\* embedding entry points call embed, and only on success.
afterSolveReduced(ep, b) ==
    IF ~b THEN "returned"
    ELSE IF ep = "isClusterPlanarDestructive" THEN "returned"
    ELSE "embed"

\* A return value that forgets solveReduced.
returnValue_MadeOnly(ep, made, solved) ==
    IF made = "true" THEN "true" ELSE "false"

\* The value the entry point returns.
returnValue(ep, made, solved) ==
    IF made = "true" /\ solved = "true" THEN "true" ELSE "false"

\* A bool as the model keeps it: "none" stands for not yet returned.
answer(b) == IF b THEN "true" ELSE "false"

\* origE.mapEndpoint(adj): the entry of the caller's edge the copy was made of
\* (edges are copied in order, so the copy of edge i is edge i); null for an
\* edge that is no copy.
mapEndpoint(a) ==
    IF a[1] \in 0..(Len(input.edges) - 1) THEN a ELSE NoAdj

\* A copy back that reverses every list.
mapEntries_Reversed(as) == [i \in 1..Len(as) |-> mapEndpoint(as[Len(as) + 1 - i])]

\* Lines 90-92 (and copyEmbedding's lists): every entry mapped, in order.
mapEntries(as) == [i \in 1..Len(as) |-> mapEndpoint(as[i])]

\* copyEmbedding(Gcopy, G, mapEndpoint): every node of G gets the order of its
\* copy's adjacency list.
copyEmbedding(from, to) ==
    [to EXCEPT !.adj = [n \in DOMAIN to.adj |-> mapEntries(from.adj[n])]]

\* The orders in which pipes can be taken: the sequences of different pipes.
PipeSeqs(m) ==
    UNION {{q \in [1..k -> m] : \A i, j \in 1..k : q[i] = q[j] => i = j} :
              k \in 0..Cardinality(m)}

\* One structural mutation of the reductions: its undo record is pushed with
\* the state it restores, then the pipe p is deregistered and its two gray
\* nodes are joined, which removes them from the graph and the cluster graph.
joinPipe(st, p) ==
    [G |-> join(st.G, p[2], p[1], getIncidentEdgeBijection(st.G, st.matchings, p[2])),
     CG |-> unassignNode(unassignNode(st.CG, p[2]), p[1]),
     matchings |-> removeMatching(st.matchings, p[1], p[2]),
     undo_stack |-> pushUndoOperationAndCheck(st.undo_stack, "UndoReduction"),
     reductions |-> Append(st.reductions,
                        [G |-> st.G, CG |-> st.CG, matchings |-> st.matchings])]

RECURSIVE joinPipes(_, _)
joinPipes(st, ps) ==
    IF ps = <<>> THEN st ELSE joinPipes(joinPipe(st, Head(ps)), Tail(ps))

\* makeReduced(): reductions are applied to pipes, each one a mutation with
\* its undo record, until no pipe can be reduced further (true) or a
\* contradiction is found (false, at once and without rollback).  Which pipes
\* are reduced, and in which order, is the reduction rules' choice.
MakeReduced ==
    /\ pc = "makeReduced"
    /\ UNCHANGED otherVars
    /\ \E b \in BOOLEAN, ps \in PipeSeqs(matchings) :
       \E st \in {joinPipes([G |-> G, CG |-> CG, matchings |-> matchings,
                             undo_stack |-> undo_stack, reductions |-> reductions], ps)} :
         /\ G' = st.G
         /\ CG' = st.CG
         /\ matchings' = st.matchings
         /\ undo_stack' = st.undo_stack
         /\ reductions' = st.reductions
         /\ mr' = answer(b)
         /\ pc' = afterMakeReduced(entry, b)
         /\ result' = IF pc' = "returned" THEN returnValue(entry, answer(b), sr) ELSE result
    /\ UNCHANGED <<entry, m_augmentation, parent, input,
                   op, fc_it, todo, processed, count, pipeOf, sr, embedCalled,
                   augmentation, callerG, callerCG, bicomps, undoPos, fault>>

\* solveReduced(): every pipe pair still registered is joined, which removes
\* its two gray nodes (true); a contradiction found on the way returns false
\* with the pipes joined so far, without rollback.
SolveReduced ==
    /\ pc = "solveReduced"
    /\ UNCHANGED otherVars
    /\ \E b \in BOOLEAN, ps \in PipeSeqs(matchings) :
       \E st \in {joinPipes([G |-> G, CG |-> CG, matchings |-> matchings,
                             undo_stack |-> undo_stack, reductions |-> reductions], ps)} :
         /\ b => Len(ps) = Cardinality(matchings)
         /\ G' = st.G
         /\ CG' = st.CG
         /\ matchings' = st.matchings
         /\ undo_stack' = st.undo_stack
         /\ reductions' = st.reductions
         /\ sr' = answer(b)
         /\ pc' = afterSolveReduced(entry, b)
         /\ result' = IF pc' = "returned" THEN returnValue(entry, mr, answer(b)) ELSE result
    /\ UNCHANGED <<entry, m_augmentation, parent, input,
                   op, fc_it, todo, processed, count, pipeOf, mr, embedCalled,
                   augmentation, callerG, callerCG, bicomps, undoPos, fault>>

\* embed(), one step of the unwinding above UndoInitCluster: the record of a
\* reduction is popped and undone, which brings back the pipe and its two gray
\* nodes as they were before the reduction.
UndoReduction ==
    /\ pc = "embed"
    /\ UNCHANGED otherVars
    /\ undo_stack # <<>> /\ reductions # <<>>
    /\ undo_stack[Len(undo_stack)] = "UndoReduction"
    /\ embedCalled' = TRUE
    /\ undo_stack' = SubSeq(undo_stack, 1, Len(undo_stack) - 1)
    /\ reductions' = SubSeq(reductions, 1, Len(reductions) - 1)
    /\ G' = reductions[Len(reductions)].G
    /\ CG' = reductions[Len(reductions)].CG
    /\ matchings' = reductions[Len(reductions)].matchings
    /\ UNCHANGED <<entry, m_augmentation, parent, input, pc,
                   op, fc_it, todo, processed, count, pipeOf, mr, sr, result,
                   augmentation, callerG, callerCG, bicomps, undoPos, fault>>

\* After embed: clusterPlanarEmbedClusterPlanarGraph returns true (line 62);
\* clusterPlanarEmbed first copies the embedding, the clusters' adjEntries and
\* the augmentation pairs back to the caller (lines 86-100).
ReturnEmbedded ==
    /\ pc = "embedded"
    /\ UNCHANGED otherVars
    /\ pc' = "returned"
    /\ result' = returnValue(entry, mr, sr)
    /\ IF entry = "clusterPlanarEmbed"
       THEN /\ callerG' = copyEmbedding(G, callerG)
            /\ callerCG' = [callerCG EXCEPT
                    !.adjAvailable = TRUE,
                    !.adjEntries = [c \in DOMAIN callerCG.adjEntries |->
                                        mapEntries(CG.adjEntries[c])]]
            /\ augmentation' =
                    IF m_augmentation
                    THEN [i \in 1..Len(augmentation) |->
                            <<mapEndpoint(augmentation[i][1]),
                              mapEndpoint(augmentation[i][2])>>]
                    ELSE augmentation
       ELSE UNCHANGED <<callerG, callerCG, augmentation>>
    /\ UNCHANGED <<reductions, entry, m_augmentation, parent, input, G, CG, matchings, undo_stack,
                   op, fc_it, todo, processed, count, pipeOf, mr, sr, embedCalled,
                   bicomps, undoPos, fault>>

-----------------------------------------------------------------------------
(* The specification *)

\* A call: an entry point, an augmentation list or none, a cluster tree, a node
\* assignment, a simple graph, and cluster boundaries either never computed or
\* kept from an earlier successful run.  clusterPlanarEmbed hands SyncPlan a
\* fresh copy, whose clusters have no boundary entries.
Init ==
    \E k \in 0..MaxClusters :
    \E par \in Trees(k), a \in Assignments(k), es \in SUBSET NodePairs :
    \E g \in {MakeGraph(SortPairs(es))} :
    \E fresh \in {MakeClusterGraph(g, par, a, FALSE)},
       used \in {MakeClusterGraph(g, par, a, TRUE)} :
    \E ep \in EntryPoints, m_aug \in BOOLEAN, kept \in BOOLEAN :
          /\ entry = ep
          /\ m_augmentation = m_aug
          /\ parent = par
          /\ input = [assign |-> a, edges |-> SortPairs(es), kept |-> kept]
          /\ pc = "SyncPlan"
          /\ G = g
          /\ CG = IF ep = "clusterPlanarEmbed" \/ ~kept THEN fresh ELSE used
          /\ callerG = g
          /\ callerCG = IF kept THEN used ELSE fresh
          /\ matchings = {}
          /\ undo_stack = <<>>
          /\ op = <<>>
          /\ fc_it = 0
          /\ todo = <<>>
          /\ processed = <<>>
          /\ count = <<>>
          /\ pipeOf = <<>>
          /\ mr = "none"
          /\ sr = "none"
          /\ embedCalled = FALSE
          /\ result = "none"
          /\ augmentation = IF m_aug /\ kept /\ es # {}
                            THEN << << <<0, 0>>, <<0, 1>> >> >> ELSE <<>>
          /\ bicomps = <<>>
          /\ undoPos = 0
          /\ fault = "none"
          /\ reductions = <<>>
          /\ rot = Idle
          /\ bfs = Idle
          /\ list = Idle
          /\ shaper = Idle
          /\ packer = Idle

Next ==
    \/ CtorBegin
    \/ CtorCluster
    \/ CtorEnd
    \/ MakeReduced
    \/ SolveReduced
    \/ UndoReduction
    \/ UndoBegin
    \/ UndoCluster
    \/ UndoEnd
    \/ ReturnEmbedded

Spec == Init /\ [][Next]_vars

-----------------------------------------------------------------------------
(* NodeSPQRRotation::mapGraph *)

\* Largest number of nodes of a PC-tree explored.
MaxPCNodes == 3
\* Number of node handles, and of edge handles, of a graph.
MaxHandles == 2

\* A null node or edge.
nullptr == NoIndex

Handles == 0..(MaxHandles - 1)

\* The mapping functions a caller hands over: a shift of the handles or a
\* constant (shifts are one-to-one, a shift applied twice shows).
HandleMaps ==
    {[h \in Handles |-> (h + d) % MaxHandles] : d \in Handles}
        \cup {[h \in Handles |-> c] : c \in Handles}

\* PC-trees: node 0 is the root, parent[x] < x.
PCNodes(par) == Clusters(par)

\* getLeaves(): the nodes without children.
getLeaves(par) == SetToSortedSeq({x \in PCNodes(par) : children(par, x) = <<>>})

\* FilteringPCTreeDFS(tree, root): every node below and including x, once.
RECURSIVE FilteringPCTreeDFS(_, _)
FilteringPCTreeDFS(par, x) ==
    LET ch == children(par, x)
    IN  <<x>> \o Concat([i \in 1..Len(ch) |-> FilteringPCTreeDFS(par, ch[i])])

\* A rotation as construction may leave it: a tree, a graph node or null for
\* every PC-node, an edge or null for every leaf, bundle edges for every leaf.
Rotation(par, nullN, nullE, seed, knows) ==
    [parent |-> par,
     m_G |-> 0,
     m_n |-> seed,
     m_graphNodeForInnerNode |->
        [x \in PCNodes(par) |-> IF x \in nullN THEN nullptr ELSE (x + seed) % MaxHandles],
     m_incidentEdgeForLeaf |->
        [x \in PCNodes(par) |->
            IF x \in nullE \/ children(par, x) # <<>> THEN nullptr
            ELSE (x + seed + 1) % MaxHandles],
     m_bundleEdgesForLeaf |->
        [x \in PCNodes(par) |->
            IF children(par, x) # <<>> THEN <<>>
            ELSE <<x % MaxHandles, (x + seed) % MaxHandles>>],
     knowsPartnerEdges |-> knows]

\* A loop over the PC-nodes that maps the stored node twice.
RECURSIVE mapInnerNodes_Twice(_, _, _)
mapInnerNodes_Twice(gn, order, nodes) ==
    IF order = <<>> THEN gn
    ELSE mapInnerNodes_Twice(
            IF gn[Head(order)] # nullptr
            THEN [gn EXCEPT ![Head(order)] = nodes[nodes[@]]] ELSE gn,
            Tail(order), nodes)

\* Lines 127-132: every PC-node's graph node, unless null, is replaced by its
\* image under nodes.
RECURSIVE mapInnerNodes(_, _, _)
mapInnerNodes(gn, order, nodes) ==
    IF order = <<>> THEN gn
    ELSE mapInnerNodes(
            IF gn[Head(order)] # nullptr
            THEN [gn EXCEPT ![Head(order)] = nodes[@]] ELSE gn,
            Tail(order), nodes)

\* Lines 139-141: every bundle edge is replaced by its image.
mapBundle(es, edges) == [i \in 1..Len(es) |-> edges[es[i]]]

\* Lines 133-143: every leaf's incident edge, unless null, is replaced by its
\* image under edges, and so are its bundle edges if partner edges are known.
RECURSIVE mapLeaves(_, _, _)
mapLeaves(r, leaves, edges) ==
    IF leaves = <<>> THEN r
    ELSE LET l == Head(leaves)
             ie == IF r.m_incidentEdgeForLeaf[l] # nullptr
                   THEN edges[r.m_incidentEdgeForLeaf[l]] ELSE nullptr
             be == IF r.knowsPartnerEdges
                   THEN mapBundle(r.m_bundleEdgesForLeaf[l], edges)
                   ELSE r.m_bundleEdgesForLeaf[l]
         IN  mapLeaves([r EXCEPT !.m_incidentEdgeForLeaf[l] = ie,
                                 !.m_bundleEdgesForLeaf[l] = be],
                       Tail(leaves), edges)

\* NodeSPQRRotation::mapGraph(G, nodes, edges).
mapGraph(r, g, nodes, edges) ==
    mapLeaves([r EXCEPT !.m_G = g,
                        !.m_n = nodes[r.m_n],
                        !.m_graphNodeForInnerNode =
                            mapInnerNodes(@, FilteringPCTreeDFS(r.parent, Root), nodes)],
              getLeaves(r.parent), edges)

\* A call of mapGraph on a constructed rotation, with a graph and two maps.
MapGraph ==
    /\ rot.pc = "constructed"
    /\ \E g \in {1, 2}, nodes \in HandleMaps, edges \in HandleMaps :
         rot' = [pc |-> "mapped",
                 before |-> rot.now,
                 G |-> g, nodes |-> nodes, edges |-> edges,
                 now |-> mapGraph(rot.now, g, nodes, edges)]
    /\ UNCHANGED <<clusterVars, bfs, list, shaper, packer>>

\* The cluster planarity variables while no entry point runs.
ClusterIdle ==
    /\ entry = "none" /\ m_augmentation = FALSE /\ parent = <<>>
    /\ input = Idle /\ pc = "idle" /\ G = Idle /\ CG = Idle
    /\ matchings = {} /\ undo_stack = <<>> /\ op = <<>> /\ fc_it = 0
    /\ todo = <<>> /\ processed = <<>> /\ count = <<>> /\ pipeOf = <<>>
    /\ mr = "none" /\ sr = "none" /\ embedCalled = FALSE /\ result = "none"
    /\ augmentation = <<>> /\ callerG = Idle /\ callerCG = Idle
    /\ bicomps = <<>> /\ undoPos = 0 /\ fault = "none" /\ reductions = <<>>

InitRot ==
    /\ ClusterIdle
    /\ bfs = Idle
    /\ list = Idle
    /\ shaper = Idle
    /\ packer = Idle
    /\ \E k \in 0..(MaxPCNodes - 1) :
       \E par \in Trees(k) :
       \E nullN \in SUBSET PCNodes(par), nullE \in SUBSET Range(getLeaves(par)) :
       \E seed \in Handles, knows \in BOOLEAN :
       \E r \in {Rotation(par, nullN, nullE, seed, knows)} :
            rot = [pc |-> "constructed", before |-> r, G |-> 0,
                   nodes |-> <<>>, edges |-> <<>>, now |-> r]

NextRot == MapGraph

SpecRot == InitRot /\ [][NextRot]_vars

-----------------------------------------------------------------------------
(* FilteringBFS *)

\* Largest number of start nodes handed to the constructor.
MaxStart == 2
\* Largest number of append(n) calls made by the caller.
MaxAppends == 2

\* Every adjacency entry of g.
entriesOfGraph(g) == UNION {Range(g.adj[n]) : n \in DOMAIN g.adj}

\* Sequences of nodes of length up to k, repetitions included.
RECURSIVE NodeSeqs(_)
NodeSeqs(k) ==
    IF k = 0 THEN {<<>>}
    ELSE NodeSeqs(k - 1) \cup
         {Append(q, n) : q \in {r \in NodeSeqs(k - 1) : Len(r) = k - 1}, n \in InputNodes}

\* Lines 212-225: the start nodes are queued in order, no node is marked.
\* m_visit is the set of adjacency entries the visit filter accepts, m_descend
\* the set of nodes the descend filter accepts; start and yielded record the
\* constructor's argument and the nodes that were current() when next() ran.
FilteringBFS(g, nodes, visit, descend_from) ==
    [pc |-> "running",
     G |-> g,
     start |-> nodes,
     yielded |-> <<>>,
     m_pending |-> nodes,
     m_visited |-> [n \in DOMAIN g.adj |-> FALSE],
     m_visit |-> visit,
     m_descend |-> descend_from,
     appends |-> 0,
     remarked |-> FALSE,
     refiltered |-> FALSE,
     fault |-> "none"]

\* A search that follows every entry, whatever the visit filter says.
RECURSIVE discovered_Unfiltered(_, _, _)
discovered_Unfiltered(b, n, as) ==
    IF as = <<>> THEN <<>>
    ELSE (IF ~b.m_visited[twinNode(b.G, Head(as))]
          THEN <<twinNode(b.G, Head(as))>> ELSE <<>>)
         \o discovered_Unfiltered(b, n, Tail(as))

\* Lines 233-238: the twin nodes of n's entries that are unmarked and pass the
\* visit filter, in list order.
RECURSIVE discovered(_, _, _)
discovered(b, n, as) ==
    IF as = <<>> THEN <<>>
    ELSE (IF ~b.m_visited[twinNode(b.G, Head(as))] /\ Head(as) \in b.m_visit
          THEN <<twinNode(b.G, Head(as))>> ELSE <<>>)
         \o discovered(b, n, Tail(as))

\* A next() without the loop of lines 240-242.
skipVisited_Never(pending, visited) == pending

\* Lines 240-242: marked nodes are popped off the front of the queue.
RECURSIVE skipVisited(_, _)
skipVisited(pending, visited) ==
    IF pending # <<>> /\ visited[Head(pending)]
    THEN skipVisited(Tail(pending), visited) ELSE pending

\* FilteringBFS::next(), called on a non-empty queue.
next(b) ==
    LET n == Head(b.m_pending)
        marked == [b EXCEPT !.m_pending = Tail(@),
                            !.yielded = Append(@, n),
                            !.m_visited[n] = TRUE,
                            !.fault = IF b.m_visited[n] THEN "OGDF_ASSERT !m_visited[n]"
                                      ELSE @]
        found == IF n \in b.m_descend THEN discovered(marked, n, b.G.adj[n]) ELSE <<>>
    IN  [marked EXCEPT !.m_pending = skipVisited(marked.m_pending \o found, marked.m_visited)]

\* FilteringBFS::append(n).
append(b, n) ==
    [b EXCEPT !.m_visited[n] = FALSE,
              !.m_pending = Append(@, n),
              !.appends = @ + 1,
              !.remarked = @ \/ b.m_visited[n]]

\* FilteringBFS::setVisitFilter(mVisit); refiltered records that a filter was
\* replaced by a different one while the search was running.
setVisitFilter(b, mVisit) ==
    [b EXCEPT !.m_visit = mVisit, !.refiltered = @ \/ mVisit # b.m_visit]

\* FilteringBFS::setDescendFilter(mDescend).
setDescendFilter(b, mDescend) ==
    [b EXCEPT !.m_descend = mDescend, !.refiltered = @ \/ mDescend # b.m_descend]

valid(b) == b.m_pending # <<>>

\* Lines 276-280: an iterator holds a pointer to its search, or nullptr.
FilteringBFSIterator(ptr) == [bfs |-> ptr]

\* The only FilteringBFS object of a run, as a pointer value.
theBFS == 1

\* begin(bfs) and end(bfs), declared at lines 314-316: an iterator on the
\* search and the default-constructed one.
begin == FilteringBFSIterator(theBFS)
end == FilteringBFSIterator(nullptr)

\* An operator== that compares the two pointers only.
iteratorEquals_Pointers(b, lhs, rhs) == lhs.bfs = rhs.bfs

\* Lines 284-298, operator==; b is the search a non-null pointer refers to.
iteratorEquals(b, lhs, rhs) ==
    IF lhs.bfs # nullptr
    THEN (IF rhs.bfs # nullptr THEN lhs.bfs = rhs.bfs ELSE ~valid(b))
    ELSE (IF rhs.bfs # nullptr THEN ~valid(b) ELSE TRUE)

\* Line 300, operator!=.
iteratorDiffers(b, lhs, rhs) == ~iteratorEquals(b, lhs, rhs)

current(b) == Head(b.m_pending)

\* The caller advances the search; next() is called only while valid().
BfsNext ==
    /\ bfs.pc = "running"
    /\ valid(bfs)
    /\ bfs' = next(bfs)
    /\ UNCHANGED <<clusterVars, rot, list, shaper, packer>>

\* The caller queues a node again.
BfsAppend ==
    /\ bfs.pc = "running"
    /\ bfs.appends < MaxAppends
    /\ \E n \in InputNodes : bfs' = append(bfs, n)
    /\ UNCHANGED <<clusterVars, rot, list, shaper, packer>>

\* The visit filters and descend filters tried: everything accepted, or the
\* entry <<0, 0>>, respectively the node 0, rejected.
VisitFilters(g) == {entriesOfGraph(g), entriesOfGraph(g) \ {<<0, 0>>}}
DescendFilters == {InputNodes, InputNodes \ {0}}

\* The caller replaces the visit filter.
BfsSetVisitFilter ==
    /\ bfs.pc = "running"
    /\ \E mVisit \in VisitFilters(bfs.G) : bfs' = setVisitFilter(bfs, mVisit)
    /\ UNCHANGED <<clusterVars, rot, list, shaper, packer>>

\* The caller replaces the descend filter.
BfsSetDescendFilter ==
    /\ bfs.pc = "running"
    /\ \E mDescend \in DescendFilters : bfs' = setDescendFilter(bfs, mDescend)
    /\ UNCHANGED <<clusterVars, rot, list, shaper, packer>>

InitBFS ==
    /\ ClusterIdle
    /\ rot = Idle
    /\ list = Idle
    /\ shaper = Idle
    /\ packer = Idle
    /\ \E es \in SUBSET NodePairs, nodes \in NodeSeqs(MaxStart) :
       \E g \in {MakeGraph(SortPairs(es))} :
       \E visit \in VisitFilters(g), descend_from \in DescendFilters :
            bfs = FilteringBFS(g, nodes, visit, descend_from)

NextBFS == BfsNext \/ BfsAppend \/ BfsSetVisitFilter \/ BfsSetDescendFilter

\* The steps of a caller that never calls append().
NextBFSRun == BfsNext \/ BfsSetVisitFilter \/ BfsSetDescendFilter

SpecBFS == InitBFS /\ [][NextBFS]_vars

\* A caller that never calls append(), and calls next() as long as valid().
SpecBFSRun == InitBFS /\ [][NextBFSRun]_vars /\ WF_vars(BfsNext)

-----------------------------------------------------------------------------
(* GraphListBase *)

\* Number of GraphElement objects that exist.
MaxElems == 3

\* The GraphElement objects, as pointer values.
Elems == 1..MaxElems

\* GraphListBase::GraphListBase, and GraphElement's default member values:
\* an empty list, every element with null links.  members is the set of
\* elements the caller has inserted and not removed.
GraphListBase ==
    [pc |-> "running",
     m_size |-> 0,
     m_head |-> nullptr,
     m_tail |-> nullptr,
     m_next |-> [x \in Elems |-> nullptr],
     m_prev |-> [x \in Elems |-> nullptr],
     members |-> {},
     fault |-> "none"]

size(l) == l.m_size

\* GraphListBase::pushBack(pX).
pushBack(l, pX) ==
    LET a == [l EXCEPT !.m_next[pX] = nullptr, !.m_prev[pX] = l.m_tail]
        b == IF a.m_head # nullptr
             THEN [a EXCEPT !.m_next[a.m_tail] = pX, !.m_tail = pX]
             ELSE [a EXCEPT !.m_tail = pX, !.m_head = pX]
    IN  [b EXCEPT !.m_size = @ + 1]

\* GraphListBase::insertAfter(pX, pY).
insertAfter(l, pX, pY) ==
    LET pYnext == l.m_next[pY]
        a == [l EXCEPT !.m_prev[pX] = pY, !.m_next[pX] = pYnext]
        b == [a EXCEPT !.m_next[pY] = pX]
        c == IF pYnext # nullptr THEN [b EXCEPT !.m_prev[pYnext] = pX]
             ELSE [b EXCEPT !.m_tail = pX]
    IN  [c EXCEPT !.m_size = @ + 1]

\* GraphListBase::insertBefore(pX, pY).
insertBefore(l, pX, pY) ==
    LET pYprev == l.m_prev[pY]
        a == [l EXCEPT !.m_next[pX] = pY, !.m_prev[pX] = pYprev]
        b == [a EXCEPT !.m_prev[pY] = pX]
        c == IF pYprev # nullptr THEN [b EXCEPT !.m_next[pYprev] = pX]
             ELSE [b EXCEPT !.m_head = pX]
    IN  [c EXCEPT !.m_size = @ + 1]

\* A del that leaves m_tail alone.
del_KeepsTail(l, pX) ==
    LET pxPrev == l.m_prev[pX]
        pxNext == l.m_next[pX]
        a == IF pxPrev # nullptr THEN [l EXCEPT !.m_next[pxPrev] = pxNext]
             ELSE [l EXCEPT !.m_head = pxNext]
        b == IF pxNext # nullptr THEN [a EXCEPT !.m_prev[pxNext] = pxPrev] ELSE a
    IN  [b EXCEPT !.m_size = @ - 1]

\* GraphListBase::del(pX): the links of pX itself stay as they were.
del(l, pX) ==
    LET pxPrev == l.m_prev[pX]
        pxNext == l.m_next[pX]
        a == IF pxPrev # nullptr THEN [l EXCEPT !.m_next[pxPrev] = pxNext]
             ELSE [l EXCEPT !.m_head = pxNext]
        b == IF pxNext # nullptr THEN [a EXCEPT !.m_prev[pxNext] = pxPrev]
             ELSE [a EXCEPT !.m_tail = pxPrev]
    IN  [b EXCEPT !.m_size = @ - 1]

\* The while loop of reverse(): the two links of pX are exchanged and the
\* loop goes on with the former successor.
RECURSIVE reverseLoop(_, _)
reverseLoop(l, pX) ==
    IF pX = nullptr THEN l
    ELSE LET pY == l.m_next[pX]
             a == [l EXCEPT !.m_next[pX] = l.m_prev[pX]]
             b == [a EXCEPT !.m_prev[pX] = pY]
         IN  reverseLoop(b, pY)

\* GraphListBase::reverse().
reverse(l) ==
    reverseLoop([l EXCEPT !.m_head = l.m_tail, !.m_tail = l.m_head], l.m_head)

\* The three cases of swap(pX, pY): pY follows pX, pX follows pY, or neither.
exchangeLinks(l, pX, pY) ==
    IF l.m_next[pX] = pY
    THEN LET a == [l EXCEPT !.m_next[pX] = l.m_next[pY]]
             b == [a EXCEPT !.m_prev[pY] = a.m_prev[pX]]
             c == [b EXCEPT !.m_next[pY] = pX]
         IN  [c EXCEPT !.m_prev[pX] = pY]
    ELSE IF l.m_next[pY] = pX
    THEN LET a == [l EXCEPT !.m_next[pY] = l.m_next[pX]]
             b == [a EXCEPT !.m_prev[pX] = a.m_prev[pY]]
             c == [b EXCEPT !.m_next[pX] = pY]
         IN  [c EXCEPT !.m_prev[pY] = pX]
    ELSE LET a == [l EXCEPT !.m_next[pX] = l.m_next[pY]]
             b == [a EXCEPT !.m_next[pY] = l.m_next[pX]]
             c == [b EXCEPT !.m_prev[pX] = b.m_prev[pY]]
         IN  [c EXCEPT !.m_prev[pY] = b.m_prev[pX]]

\* The two if-statements swap() runs for pX and then for pY: the neighbours
\* of p, or m_head / m_tail, are made to point at p.
relink(l, p) ==
    LET a == IF l.m_prev[p] # nullptr THEN [l EXCEPT !.m_next[l.m_prev[p]] = p]
             ELSE [l EXCEPT !.m_head = p]
    IN  IF a.m_next[p] # nullptr THEN [a EXCEPT !.m_prev[a.m_next[p]] = p]
        ELSE [a EXCEPT !.m_tail = p]

\* The elements met from p along m_next, at most fuel of them.
RECURSIVE walkFrom(_, _, _)
walkFrom(l, p, fuel) ==
    IF p = nullptr \/ fuel = 0 THEN <<>>
    ELSE <<p>> \o walkFrom(l, l.m_next[p], fuel - 1)

\* The elements reachable from the head; a walk longer than the number of
\* elements has run into a cycle.
walk(l) == walkFrom(l, l.m_head, MaxElems + 1)

\* GraphListBase::consistencyCheck(): TRUE iff no assertion fails.
consistencyCheck(l) ==
    /\ (l.m_head = nullptr) = (l.m_tail = nullptr)
    /\ l.m_head # nullptr =>
         /\ l.m_prev[l.m_head] = nullptr
         /\ l.m_next[l.m_tail] = nullptr
         /\ \A i \in 1..Len(walk(l)) :
              LET pX == walk(l)[i]
              IN  /\ IF l.m_prev[pX] # nullptr THEN l.m_next[l.m_prev[pX]] = pX
                     ELSE pX = l.m_head
                  /\ IF l.m_next[pX] # nullptr THEN l.m_prev[l.m_next[pX]] = pX
                     ELSE pX = l.m_tail

\* GraphListBase::swap(pX, pY), with the check of the debug build.
swap(l, pX, pY) ==
    LET r == relink(relink(exchangeLinks(l, pX, pY), pX), pY)
    IN  [r EXCEPT !.fault = IF consistencyCheck(r) THEN @ ELSE "OGDF_ASSERT consistencyCheck"]

\* The loop of sort(begin, end) over the range: p follows pPred.
RECURSIVE sortLoop(_, _, _)
sortLoop(l, range, pPred) ==
    IF range = <<>> THEN [l EXCEPT !.m_tail = pPred, !.m_next[pPred] = nullptr]
    ELSE LET p == Head(range)
             a == [l EXCEPT !.m_prev[p] = pPred]
             b == IF pPred # nullptr THEN [a EXCEPT !.m_next[pPred] = p] ELSE a
         IN  sortLoop(b, Tail(range), p)

\* GraphListBase::sort(newOrder): nothing for an empty range, else the links
\* are rewritten in the order of the range; m_size is left as it is.
sort(l, newOrder) ==
    IF newOrder = <<>> THEN l
    ELSE sortLoop([l EXCEPT !.m_head = Head(newOrder)], newOrder, nullptr)

\* GraphListBase::permute(rng): the array A holds the elements met from the
\* head between two null pointers, A.permute leaves them in the order given
\* here, and every element is linked to its neighbours in A.
permute(l, order) ==
    LET A == [i \in 0..(l.m_size + 1) |->
                 IF i = 0 \/ i = l.m_size + 1 THEN nullptr ELSE order[i]]
        r == [l EXCEPT
                !.m_next = [x \in Elems |->
                    IF \E i \in 1..l.m_size : A[i] = x
                    THEN A[(CHOOSE i \in 1..l.m_size : A[i] = x) + 1] ELSE @[x]],
                !.m_prev = [x \in Elems |->
                    IF \E i \in 1..l.m_size : A[i] = x
                    THEN A[(CHOOSE i \in 1..l.m_size : A[i] = x) - 1] ELSE @[x]],
                !.m_head = A[1],
                !.m_tail = A[l.m_size]]
    IN  [r EXCEPT !.fault = IF consistencyCheck(r) THEN @ ELSE "OGDF_ASSERT consistencyCheck"]

\* GraphList<T>::clear(): the elements are deallocated and the list is
\* empty; clear writes m_head, m_tail and m_size only.
clear(l) ==
    IF l.m_head = nullptr THEN l
    ELSE [l EXCEPT !.m_head = nullptr, !.m_tail = nullptr, !.m_size = 0,
                   !.members = {}]

\* The orders of the elements of the list: the sequences that hold every
\* element of the list once.
Orders(l) ==
    {q \in [1..Cardinality(l.members) -> l.members] : Range(q) = l.members}

ListPushBack ==
    /\ list.pc = "running"
    /\ \E pX \in Elems \ list.members :
         list' = [pushBack(list, pX) EXCEPT !.members = @ \cup {pX}]
    /\ UNCHANGED <<clusterVars, rot, bfs, shaper, packer>>

ListInsertAfter ==
    /\ list.pc = "running"
    /\ \E pX \in Elems \ list.members, pY \in list.members :
         list' = [insertAfter(list, pX, pY) EXCEPT !.members = @ \cup {pX}]
    /\ UNCHANGED <<clusterVars, rot, bfs, shaper, packer>>

ListInsertBefore ==
    /\ list.pc = "running"
    /\ \E pX \in Elems \ list.members, pY \in list.members :
         list' = [insertBefore(list, pX, pY) EXCEPT !.members = @ \cup {pX}]
    /\ UNCHANGED <<clusterVars, rot, bfs, shaper, packer>>

ListDel ==
    /\ list.pc = "running"
    /\ \E pX \in list.members :
         list' = [del(list, pX) EXCEPT !.members = @ \ {pX}]
    /\ UNCHANGED <<clusterVars, rot, bfs, shaper, packer>>

ListSwap ==
    /\ list.pc = "running"
    /\ \E pX \in list.members, pY \in list.members : list' = swap(list, pX, pY)
    /\ UNCHANGED <<clusterVars, rot, bfs, shaper, packer>>

ListReverse ==
    /\ list.pc = "running"
    /\ list' = reverse(list)
    /\ UNCHANGED <<clusterVars, rot, bfs, shaper, packer>>

\* sort is called with the elements of the list in a new order.
ListSort ==
    /\ list.pc = "running"
    /\ \E newOrder \in Orders(list) : list' = sort(list, newOrder)
    /\ UNCHANGED <<clusterVars, rot, bfs, shaper, packer>>

\* permute leaves the elements in an order the random generator decides.
ListPermute ==
    /\ list.pc = "running"
    /\ \E order \in Orders(list) : list' = permute(list, order)
    /\ UNCHANGED <<clusterVars, rot, bfs, shaper, packer>>

ListClear ==
    /\ list.pc = "running"
    /\ list' = clear(list)
    /\ UNCHANGED <<clusterVars, rot, bfs, shaper, packer>>

InitList ==
    /\ ClusterIdle
    /\ rot = Idle
    /\ bfs = Idle
    /\ shaper = Idle
    /\ packer = Idle
    /\ list = GraphListBase

NextList ==
    \/ ListPushBack
    \/ ListInsertAfter
    \/ ListInsertBefore
    \/ ListDel
    \/ ListSwap
    \/ ListReverse
    \/ ListSort
    \/ ListPermute
    \/ ListClear

SpecList == InitList /\ [][NextList]_vars

-----------------------------------------------------------------------------
(* TileToRowsCCPacker *)

\* Largest number of boxes handed to call.
MaxBoxes == 3
\* Largest width and height of a box, apart from the one very wide box.
MaxSide == 2

\* The largest value of the number type of IPoint, a 32-bit int, and the
\* largest int whose square is still an int.
INT_MAX == 2147483647
SqrtIntMax == 46340

\* The widths and heights tried.
Widths == 0..MaxSide \cup {INT_MAX}
Heights == 0..MaxSide

\* The page ratios tried, as fractions <<p, q>>: 1/2, 1 and 2.
PageRatios == {<<1, 2>>, <<1, 1>>, <<2, 1>>}

IPoint(x, y) == [m_x |-> x, m_y |-> y]

\* Arrays of n boxes, indexed from 1 (the source's index plus one).
RECURSIVE BoxArrays(_)
BoxArrays(n) ==
    IF n = 0 THEN {<<>>}
    ELSE {Append(b, IPoint(w, h)) : b \in BoxArrays(n - 1), w \in Widths, h \in Heights}

\* a + b in the number type, b >= 0: a sum above INT_MAX is undefined in the
\* source and comes out wrapped round in the builds.
intAdd(a, b) ==
    IF a > INT_MAX - b THEN (a - INT_MAX - 1) + (b - INT_MAX - 1) ELSE a + b

addOverflows(a, b) == a > INT_MAX - b

squareOverflows(w) == w > SqrtIntMax \/ w < -SqrtIntMax

\* RowInfo::RowInfo and the new-row branch of callGeneric.
RowInfo(boxes, maxHeight, width) ==
    [m_boxes |-> boxes, m_maxHeight |-> maxHeight, m_width |-> width]

Max(a, b) == IF a > b THEN a ELSE b

\* The orders quicksort with DecrIndexComparer may leave the indices in: every
\* permutation with non-increasing heights (the order of equal heights is the
\* sorting routine's).
sortedOrders(box) ==
    {q \in Permutations(1..Len(box)) :
        \A i \in 1..(Len(q) - 1) : box[q[i]].m_y >= box[q[i + 1]].m_y}

\* Lines 84-93: width and height of the current arrangement.
RECURSIVE totalWidthOf(_)
totalWidthOf(row) ==
    IF row = <<>> THEN 0 ELSE Max(totalWidthOf(Tail(row)), Head(row).m_width)

RECURSIVE totalHeightOf(_)
totalHeightOf(row) ==
    IF row = <<>> THEN 0 ELSE Head(row).m_maxHeight + totalHeightOf(Tail(row))

\* max(pageRatio * h * h, w * w / pageRatio) for pageRatio = p / q, times
\* p * q (the same factor for every area compared).
area(pr, h, w) == Max(pr[1] * pr[1] * h * h, pr[2] * pr[2] * w * w)

\* Lines 105-116: the first row whose area is the smallest, if smaller than
\* the area with a new row; rows are numbered from 0, -1 is a new row.
RECURSIVE bestRowLoop(_, _, _, _, _, _)
bestRowLoop(row, pr, rect, i, bestRow, bestArea) ==
    IF i > Len(row) THEN bestRow
    ELSE LET w == row[i].m_width + rect.m_x
             h == Max(row[i].m_maxHeight, rect.m_y)
         IN  IF area(pr, h, w) < bestArea
             THEN bestRowLoop(row, pr, rect, i + 1, i - 1, area(pr, h, w))
             ELSE bestRowLoop(row, pr, rect, i + 1, bestRow, bestArea)

\* TRUE iff findBestRow computes a sum or a square that is not an int.
findBestRowOverflows(row, rect) ==
    \/ squareOverflows(Max(totalWidthOf(row), rect.m_x))
    \/ \E i \in 1..Len(row) :
          \/ addOverflows(row[i].m_width, rect.m_x)
          \/ squareOverflows(intAdd(row[i].m_width, rect.m_x))

\* TileToRowsCCPacker::findBestRow: the set of values it may return.  With an
\* overflow the areas compared are undefined, and any row or -1 may come out.
findBestRow(row, pr, rect) ==
    IF findBestRowOverflows(row, rect) THEN (-1)..(Len(row) - 1)
    ELSE {bestRowLoop(row, pr, rect, 1, -1,
                      area(pr, totalHeightOf(row) + rect.m_y,
                           Max(totalWidthOf(row), rect.m_x)))}

\* Lines 150-163: the box with index j opens a new row or joins row bestRow.
place(row, box, j, bestRow) ==
    IF bestRow < 0
    THEN Append(row, RowInfo(<<j>>, box[j].m_y, box[j].m_x))
    ELSE [row EXCEPT ![bestRow + 1] =
             RowInfo(Append(@.m_boxes, j), Max(@.m_maxHeight, box[j].m_y),
                     intAdd(@.m_width, box[j].m_x))]

\* Lines 174-177: the boxes of one row get offsets (x, y), x growing by the
\* width of each box.
RECURSIVE rowOffsets(_, _, _, _, _)
rowOffsets(offset, box, boxes, x, y) ==
    IF boxes = <<>> THEN offset
    ELSE rowOffsets([offset EXCEPT ![Head(boxes)] = IPoint(x, y)], box, Tail(boxes),
                    intAdd(x, box[Head(boxes)].m_x), y)

\* Lines 168-180: the rows from the first to the last, y growing by the
\* maximal height of each row.
RECURSIVE setOffsets(_, _, _, _)
setOffsets(offset, box, row, y) ==
    IF row = <<>> THEN offset
    ELSE setOffsets(rowOffsets(offset, box, Head(row).m_boxes, 0, y), box, Tail(row),
                    y + Head(row).m_maxHeight)

\* Lines 121-139: the arguments, no row, and the sorted indices.
callGeneric(box, offset, pageRatio, sortedIndices) ==
    [pc |-> "rows",
     box |-> box,
     offset |-> offset,
     pageRatio |-> pageRatio,
     sortedIndices |-> sortedIndices,
     i |-> 1,
     row |-> <<>>,
     overflow |-> FALSE]

\* Lines 143-164, one iteration of the loop over the sorted indices.
PackPlace ==
    /\ packer.pc = "rows"
    /\ packer.i <= Len(packer.box)
    /\ \E bestRow \in findBestRow(packer.row, packer.pageRatio,
                                    packer.box[packer.sortedIndices[packer.i]]) :
         packer' = [packer EXCEPT
                      !.row = place(@, packer.box, packer.sortedIndices[packer.i], bestRow),
                      !.i = @ + 1,
                      !.overflow = @ \/ findBestRowOverflows(packer.row,
                                          packer.box[packer.sortedIndices[packer.i]])]
    /\ UNCHANGED <<clusterVars, rot, bfs, list, shaper>>

\* Lines 166-181: every box has its row, the offsets are set.
PackOffsets ==
    /\ packer.pc = "rows"
    /\ packer.i > Len(packer.box)
    /\ packer' = [packer EXCEPT
                    !.offset = setOffsets(@, packer.box, packer.row, 0),
                    !.pc = "done"]
    /\ UNCHANGED <<clusterVars, rot, bfs, list, shaper>>

InitPack ==
    /\ ClusterIdle
    /\ rot = Idle
    /\ bfs = Idle
    /\ list = Idle
    /\ shaper = Idle
    /\ \E n \in 0..MaxBoxes :
       \E box \in BoxArrays(n), pageRatio \in PageRatios :
       \E sortedIndices \in sortedOrders(box) :
          packer = callGeneric(box, [j \in 1..n |-> IPoint(0, 0)], pageRatio, sortedIndices)

NextPack == PackPlace \/ PackOffsets

SpecPack == InitPack /\ [][NextPack]_vars

-----------------------------------------------------------------------------
(* OrthoShaper::call *)

\* Largest number of edges of the planarized representation.
MaxEdges == 2
\* Largest value of the option m_startBoundBendsPerEdge.
MaxStartBound == 9

\* The largest bound the loop tries: 4 * PG.numberOfEdges().
lastBound(numberOfEdges) == 4 * numberOfEdges

\* flowModule.call with every capacity-bounded edge bounded by bound: the
\* network has a flow iff the bound reaches minBound, the smallest bound with
\* a flow (raising capacities keeps a flow feasible).
flowModuleCall(minBound, bound) == bound >= minBound

\* Lines 1392-1397 and 2512-2517: the first bound.
firstBound(start, numberOfEdges) ==
    IF start > 0 THEN start ELSE lastBound(numberOfEdges)

\* Lines 1399 and 2519: the loop condition.
loopCondition(sh) ==
    ~sh.isFlow /\ sh.currentUpperBound <= lastBound(sh.numberOfEdges)

\* Lines 1452 and 2566: the condition of the throw.
throwsNoFlow(sh) == sh.m_startBoundBendsPerEdge # 0 /\ ~sh.isFlow

\* OrthoShaper::call up to the loop: a representation without edges returns
\* at once (lines 67-69, 1529-1531).
ShaperBegin ==
    /\ shaper.pc = "call"
    /\ shaper' =
         IF shaper.numberOfEdges = 0 THEN [shaper EXCEPT !.pc = "returned"]
         ELSE [shaper EXCEPT
                 !.pc = "loop",
                 !.isFlow = FALSE,
                 !.currentUpperBound =
                     firstBound(shaper.m_startBoundBendsPerEdge, shaper.numberOfEdges)]
    /\ UNCHANGED <<clusterVars, rot, bfs, list, packer>>

\* Lines 1399-1450 and 2519-2564, one iteration: the bound is set, the flow
\* module called, the assertion checked, the bound raised by one.
ShaperTry ==
    /\ shaper.pc = "loop"
    /\ loopCondition(shaper)
    /\ \E found \in {flowModuleCall(shaper.minBound, shaper.currentUpperBound)} :
         shaper' = [shaper EXCEPT
                      !.isFlow = found,
                      !.tried = Append(@, shaper.currentUpperBound),
                      !.fault = IF shaper.m_startBoundBendsPerEdge >= 1 \/ found THEN @
                                ELSE "OGDF_ASSERT m_startBoundBendsPerEdge >= 1 || isFlow",
                      !.currentUpperBound = @ + 1]
    /\ UNCHANGED <<clusterVars, rot, bfs, list, packer>>

\* Lines 1452-1454 and 2566-2568: after the loop the call throws or goes on.
ShaperEnd ==
    /\ shaper.pc = "loop"
    /\ ~loopCondition(shaper)
    /\ shaper' = [shaper EXCEPT !.pc = IF throwsNoFlow(shaper) THEN "NoFlow" ELSE "flow"]
    /\ UNCHANGED <<clusterVars, rot, bfs, list, packer>>

InitShaper ==
    /\ ClusterIdle
    /\ rot = Idle
    /\ bfs = Idle
    /\ list = Idle
    /\ packer = Idle
    /\ \E numberOfEdges \in 0..MaxEdges, start \in 0..MaxStartBound :
       \E minBound \in 0..(lastBound(numberOfEdges) + 1) :
          shaper = [pc |-> "call",
                    numberOfEdges |-> numberOfEdges,
                    m_startBoundBendsPerEdge |-> start,
                    minBound |-> minBound,
                    isFlow |-> FALSE,
                    currentUpperBound |-> 0,
                    tried |-> <<>>,
                    fault |-> "none"]

NextShaper == ShaperBegin \/ ShaperTry \/ ShaperEnd

SpecShaper == InitShaper /\ [][NextShaper]_vars

-----------------------------------------------------------------------------
(* Properties *)

\* The caller's graph and the node sets it induces.
inputGraph == MakeGraph(input.edges)

nonRoot == DOMAIN parent

constructing == pc = "SyncPlan_clusters"

\* The three steps in which embed() runs.
embedding == pc \in {"embed", "undo", "embedded"}

\* C1: in every entry point solveReduced is invoked only after makeReduced
\* returned true, embed only after solveReduced returned true, and
\* isClusterPlanarDestructive never invokes embed.
C1_CallOrder ==
    /\ (pc = "solveReduced" \/ sr # "none") => mr = "true"
    /\ (embedding \/ embedCalled) => (mr = "true" /\ sr = "true")
    /\ entry = "isClusterPlanarDestructive" => ~embedding /\ ~embedCalled

C1_Witness ==
    /\ entry = "clusterPlanarEmbed"
    /\ pc = "undo"
    /\ embedCalled
    /\ sr = "true"

\* C2: once UndoInitCluster::undo has run through after the constructor, the
\* graph has exactly the original nodes and every one of them is assigned to
\* the cluster it was in before construction.
C2_AssignmentRestored ==
    (pc \in {"embedded", "returned"} /\ embedCalled) =>
        /\ DOMAIN G.adj = InputNodes
        /\ assignment(CG) = input.assign

C2_Witness ==
    /\ pc = "embedded"
    /\ \E n \in InputNodes :
         /\ input.assign[n] # Root
         /\ parent[input.assign[n]] # Root
    /\ \E n \in InputNodes : input.assign[n] = Root

\* C3: an entry point that has returned returned true iff makeReduced and
\* solveReduced both returned true; a false makeReduced or solveReduced ends
\* the call at once with the ordinary return value false: solveReduced is not
\* called after a false makeReduced, embed is not called, nothing has failed.
C3_ReturnValue ==
    /\ result # "none" => pc = "returned"
    /\ pc = "returned" => /\ result \in {"true", "false"}
                          /\ (result = "true") = (mr = "true" /\ sr = "true")
    /\ mr = "false" => /\ pc = "returned" /\ result = "false"
                       /\ sr = "none" /\ ~embedCalled /\ fault = "none"
    /\ sr = "false" => /\ pc = "returned" /\ result = "false"
                       /\ ~embedCalled /\ fault = "none"

C3_Witness ==
    /\ pc = "returned"
    /\ result = "false"
    /\ mr = "true"
    /\ sr = "false"

\* The number of times edge e has an entry in the list as.
entriesOf(as, e) == Cardinality({i \in 1..Len(as) : as[i][1] = e})

\* C4: after embed every non-root cluster's adjEntries holds exactly one entry
\* per edge crossing the cluster's boundary and nothing else, whatever it held
\* before the run, and the root's adjEntries is empty.
C4_BoundaryExact ==
    pc = "embedded" =>
        /\ CG.adjEntries[Root] = <<>>
        /\ \A c \in nonRoot :
             /\ \A e \in crossingEdges(inputGraph, parent, input.assign, c) :
                    entriesOf(CG.adjEntries[c], e) = 1
             /\ Len(CG.adjEntries[c]) =
                    Cardinality(crossingEdges(inputGraph, parent, input.assign, c))

\* C6: once makeReduced and solveReduced have returned true, embed runs
\* without a failed assertion or an invalid access, for every cluster and with
\* or without an augmentation list.
C6_EmbedNeverFails ==
    (mr = "true" /\ sr = "true") => (fault = "none" /\ pc # "fault")

\* C7: the constructor takes the non-root clusters in post-order: when a
\* cluster is taken all clusters below it have been taken before, no cluster is
\* taken twice, the root is never taken, and at the end every non-root cluster
\* has been taken.
C7_PostOrder ==
    /\ \A i \in 1..Len(processed) :
         /\ processed[i] # Root
         /\ \A j \in 1..Len(processed) : processed[i] = processed[j] => i = j
         /\ \A d \in descendants(parent, processed[i]) :
                \E j \in 1..(i - 1) : processed[j] = d
    /\ (pc # "SyncPlan" /\ ~constructing /\ fault = "none") =>
            Range(processed) = nonRoot

C7_Witness ==
    /\ constructing
    /\ Len(processed) = 2
    /\ parent[processed[1]] = processed[2]

\* C8: every cluster taken gets two new nodes, cn assigned to it and pn
\* assigned to its parent, and one pipe (cn, pn); while the constructor runs the
\* graph has the original nodes and two gray nodes per cluster taken, and
\* after it the gray nodes and the pipes number 2k and k for k non-root clusters.
C8_GrayNodesAndPipes ==
    /\ (constructing \/ pc = "makeReduced") =>
         /\ DOMAIN pipeOf = Range(processed)
         /\ DOMAIN G.adj = 0..(MaxNodes + 2 * Len(processed) - 1)
         /\ matchings = {pipeOf[c] : c \in DOMAIN pipeOf}
         /\ Cardinality(matchings) = Len(processed)
         /\ \A c \in DOMAIN pipeOf :
              /\ pipeOf[c][1] \notin InputNodes
              /\ pipeOf[c][2] \notin InputNodes
              /\ pipeOf[c][1] # pipeOf[c][2]
    /\ constructing =>
         \A c \in DOMAIN pipeOf :
              /\ clusterOf(CG, pipeOf[c][1]) = c
              /\ clusterOf(CG, pipeOf[c][2]) = parent[c]
    /\ pc = "makeReduced" =>
         /\ Cardinality(DOMAIN G.adj) = MaxNodes + 2 * Cardinality(nonRoot)
         /\ Cardinality(matchings) = Cardinality(nonRoot)

C8_Witness ==
    /\ pc = "makeReduced"
    /\ Cardinality(nonRoot) = 2
    /\ \E c \in nonRoot : count[c] = 0
    /\ \E c \in nonRoot : count[c] > 0

\* C9: from its registration on, every pipe (cn, pn) has deg(cn) = deg(pn) =
\* the count of the cluster, which is the number of edges of the input that
\* cross the cluster's boundary; this stays so while later clusters are taken.
C9_PipeDegrees ==
    \A c \in DOMAIN pipeOf :
        pipeOf[c] \in matchings =>
            /\ degree(G, pipeOf[c][1]) = count[c]
            /\ degree(G, pipeOf[c][2]) = count[c]
            /\ count[c] = Cardinality(crossingEdges(inputGraph, parent, input.assign, c))

C9_Witness ==
    /\ constructing
    /\ Len(processed) = 2
    /\ parent[processed[1]] = processed[2]
    /\ count[processed[1]] = 2
    /\ count[processed[2]] = 1

\* C10: once the constructor is through with cluster c, no edge joins a node
\* assigned to c with a node assigned to another cluster: every entry of cn
\* leads to a node of c, every entry of pn leads to a node outside c.
C10_NoCrossingEdgeLeft ==
    constructing =>
        \A c \in DOMAIN pipeOf :
            /\ \A e \in DOMAIN G.ends :
                 (clusterOf(CG, G.ends[e][1]) = c) = (clusterOf(CG, G.ends[e][2]) = c)
            /\ \A i \in 1..degree(G, pipeOf[c][1]) :
                 /\ clusterOf(CG, twinNode(G, G.adj[pipeOf[c][1]][i])) = c
                 /\ twinNode(G, G.adj[pipeOf[c][1]][i]) # pipeOf[c][1]
            /\ \A i \in 1..degree(G, pipeOf[c][2]) :
                 clusterOf(CG, twinNode(G, G.adj[pipeOf[c][2]][i])) # c

C10_Witness ==
    /\ constructing
    /\ Len(processed) = 2
    /\ parent[processed[1]] = Root
    /\ parent[processed[2]] = Root
    /\ count[processed[1]] = 2
    /\ count[processed[2]] = 2

\* C11: after construction every node of the graph, original or gray, is
\* assigned to the root cluster, every non-root cluster has an empty node
\* list, and the clusters are those of the input tree.
C11_Flattened ==
    pc \in {"makeReduced", "solveReduced", "embed"} =>
        /\ Range(CG.nodes[Root]) = DOMAIN G.adj
        /\ Len(CG.nodes[Root]) = Cardinality(DOMAIN G.adj)
        /\ \A c \in nonRoot : CG.nodes[c] = <<>>
        /\ DOMAIN CG.nodes = Clusters(parent)
        /\ Range(processed) = nonRoot

C11_Witness ==
    /\ pc = "makeReduced"
    /\ Cardinality(nonRoot) = 2
    /\ parent[2] = 1
    /\ \E n \in InputNodes : input.assign[n] = 2
    /\ \E n \in InputNodes : input.assign[n] = 1

\* Some mutation of construction has been made: a gray node, a split edge, a
\* pipe or a changed assignment.
mutated ==
    \/ DOMAIN G.adj # InputNodes
    \/ G.edgeIdCount # Len(input.edges)
    \/ matchings # {}
    \/ \E n \in InputNodes : clusterOf(CG, n) # input.assign[n]

\* C12 as stated: whenever construction has mutated the graph, the record that
\* undoes the mutation is on the undo stack.
C12_RecordOnStackAtMutation ==
    ((constructing \/ pc \in {"makeReduced", "solveReduced", "embed"}) /\ mutated) =>
        "UndoInitCluster" \in Range(undo_stack)

\* C12, amended: the one UndoInitCluster record of construction exists before
\* the first mutation but is pushed only after the last one: while the
\* constructor runs the stack holds ResetIndices alone, at the end of
\* construction it holds ResetIndices below UndoInitCluster, and until embed
\* undoes them these two stay at the bottom, below the records of the
\* reductions; the record holds one frozen cluster per cluster, each non-root
\* one with the gray node of its pipe.
C12_RecordPushedAtEnd ==
    /\ constructing =>
         /\ undo_stack = <<"ResetIndices">>
         /\ Len(op) = Cardinality(Clusters(parent))
    /\ pc = "makeReduced" =>
         undo_stack = <<"ResetIndices", "UndoInitCluster">>
    /\ pc \in {"makeReduced", "solveReduced", "embed"} =>
         /\ Len(undo_stack) >= 2
         /\ undo_stack[1] = "ResetIndices"
         /\ undo_stack[2] = "UndoInitCluster"
         /\ \A i \in 3..Len(undo_stack) : undo_stack[i] = "UndoReduction"
         /\ Len(op) = Cardinality(Clusters(parent))
         /\ \A i \in 1..Len(op) :
              op[i].index # Root => op[i].parent_node = pipeOf[op[i].index][1]
    /\ pc = "SyncPlan" => (undo_stack = <<>> /\ ~mutated)

C12_Witness ==
    /\ constructing
    /\ mutated
    /\ Len(processed) = 2
    /\ G.edgeIdCount > Len(input.edges)

\* The input edges the entries of n stand for, in list order.
originsAt(g, n) == [i \in 1..degree(g, n) |-> g.origin[g.adj[n][i][1]]]

\* C13: for every registered pipe (cn, pn) the bijection pairs every entry of
\* cn with an entry of pn, every entry of pn is paired once, the two entries
\* of a pair are pieces of the same input edge, one that crosses the
\* cluster's boundary, and pn's list read backwards shows the same input
\* edges as cn's list.
C13_PipeBijection ==
    \A c \in DOMAIN pipeOf :
        pipeOf[c] \in matchings =>
            LET cn == pipeOf[c][1]
                pn == pipeOf[c][2]
                bij == getIncidentEdgeBijection(G, matchings, cn)
            IN  /\ Len(bij) = degree(G, cn)
                /\ Len(bij) = degree(G, pn)
                /\ \A i \in 1..Len(bij) :
                     /\ bij[i][1] = G.adj[cn][i]
                     /\ theNode(G, bij[i][2]) = pn
                     /\ bij[i][2] \in Range(G.adj[pn])
                     /\ G.origin[bij[i][1][1]] = G.origin[bij[i][2][1]]
                     /\ G.origin[bij[i][1][1]] \in
                            crossingEdges(inputGraph, parent, input.assign, c)
                     /\ \A j \in 1..Len(bij) : bij[i][2] = bij[j][2] => i = j
                /\ originsAt(G, pn) = SeqRev(originsAt(G, cn))
                /\ Cardinality(Range(originsAt(G, cn))) = degree(G, cn)

C13_Witness ==
    /\ pc = "makeReduced"
    /\ \E c \in DOMAIN pipeOf :
         /\ pipeOf[c] \in matchings
         /\ degree(G, pipeOf[c][1]) = 2
         /\ originsAt(G, pipeOf[c][1]) # SeqRev(originsAt(G, pipeOf[c][1]))
    /\ \E c \in DOMAIN pipeOf : degree(G, pipeOf[c][1]) = 0

\* Whether the call hands SyncPlan an augmentation list.
traced == augmentationOf(entry, m_augmentation)

\* embed() has begun.
undoing == embedCalled /\ pc \in {"undo", "embedded", "returned", "fault"}

\* The entries this run has appended to c->adjEntries, in the order of the
\* bijection: the list without what it held when the run began.
newEntries(c) ==
    LET before == IF input.kept /\ entry # "clusterPlanarEmbed"
                  THEN Len(boundaryEntries(inputGraph, parent, input.assign, c))
                  ELSE 0
    IN  SubSeq(CG.adjEntries[c], before + 1, Len(CG.adjEntries[c]))

\* The pairs of neighbours in as whose edges have different component tags.
componentChanges(as) ==
    SelectSeq([i \in 1..(Len(as) - 1) |-> <<as[i], as[i + 1]>>],
              LAMBDA p : bicomps[p[1][1]] # bicomps[p[2][1]])

\* The frozen clusters undo has been through, the root left out.
restored ==
    SelectSeq([i \in 1..(undoPos - 1) |-> op[i].index], LAMBDA c : c # Root)

\* C14: with an augmentation list, the list holds after every restored
\* cluster, in the order of restoring, one pair (pred, curr) for exactly the
\* neighbouring boundary entries whose edges have different component tags:
\* no pair has a null pred, none is recorded for a first entry, none for the
\* last entry followed by the first.
C14_AugmentationPairs ==
    (traced /\ undoing) =>
        /\ augmentation =
              Concat([i \in 1..Len(restored) |-> componentChanges(newEntries(restored[i]))])
        /\ \A i \in 1..Len(augmentation) :
              /\ augmentation[i][1] # NoAdj
              /\ augmentation[i][2] # NoAdj
              /\ augmentation[i][1] # augmentation[i][2]

C14_Witness ==
    /\ traced
    /\ pc = "embedded"
    /\ augmentation # <<>>
    /\ \E c \in nonRoot : /\ Len(newEntries(c)) = 2
                          /\ componentChanges(newEntries(c)) = <<>>

\* The augmentation list as the caller holds it before the call.
augmentationBefore ==
    IF m_augmentation /\ input.kept /\ input.edges # <<>>
    THEN << << <<0, 0>>, <<0, 1>> >> >> ELSE <<>>

\* C15: the component tags are computed only in undo and only with an
\* augmentation list, once, for the graph as it is when undo begins (the
\* array covers every edge id given out so far, also those of edges joined
\* away since); without a list the array stays empty and the caller's list
\* is left as it was, whatever boundaries undo rebuilds.
C15_BicompsLazy ==
    /\ ~traced => (bicomps = <<>> /\ augmentation = augmentationBefore)
    /\ ~embedCalled => bicomps = <<>>
    /\ (traced /\ undoing) => DOMAIN bicomps = 0..(G.edgeIdCount - 1)

C15_Witness ==
    /\ ~traced
    /\ pc = "embedded"
    /\ \E c \in nonRoot : Len(newEntries(c)) = 2
    /\ DOMAIN G.ends # {}
    /\ bicomps = <<>>

\* The gray nodes of the pipes in m.
grayOf(m) == UNION {{p[1], p[2]} : p \in m}

callerBefore == MakeClusterGraph(inputGraph, parent, input.assign, input.kept)

\* C19: clusterPlanarEmbed never changes the nodes, the edges, the clusters
\* or the node lists of the caller's G and CG; unless it returns true it
\* changes nothing at all; having returned true it has given every node the
\* adjacency order of its copy (the same entries, reordered), every cluster
\* the mapped adjEntries of its copy, entry by entry, and set adjAvailable.
C19_CallerUntouched ==
    entry = "clusterPlanarEmbed" =>
        /\ DOMAIN callerG.adj = InputNodes
        /\ callerG.ends = inputGraph.ends
        /\ callerG.nodeIdCount = MaxNodes
        /\ callerG.edgeIdCount = Len(input.edges)
        /\ callerCG.nodes = callerBefore.nodes
        /\ DOMAIN callerCG.adjEntries = Clusters(parent)
        /\ result # "true" => (callerG = inputGraph /\ callerCG = callerBefore)
        /\ result = "true" =>
              /\ callerCG.adjAvailable
              /\ \A n \in InputNodes :
                    /\ callerG.adj[n] = G.adj[n]
                    /\ Len(callerG.adj[n]) = Len(inputGraph.adj[n])
                    /\ Range(callerG.adj[n]) = Range(inputGraph.adj[n])
              /\ \A c \in Clusters(parent) :
                    /\ Len(callerCG.adjEntries[c]) = Len(CG.adjEntries[c])
                    /\ \A i \in 1..Len(CG.adjEntries[c]) :
                          /\ callerCG.adjEntries[c][i] = mapEndpoint(CG.adjEntries[c][i])
                          /\ callerCG.adjEntries[c][i] # NoAdj

C19_Witness ==
    /\ entry = "clusterPlanarEmbed"
    /\ result = "true"
    /\ \E c \in nonRoot : Len(callerCG.adjEntries[c]) = 2
    /\ callerCG # callerBefore
    /\ DOMAIN G.adj = InputNodes

\* C18: a call mapGraph(G, nodes, edges) leaves the rotation with graph G,
\* with nodes(n) for its node n, with the image under nodes of every non-null
\* graph node of a PC-node, with the image under edges of every non-null
\* incident edge of a leaf and, iff partner edges are known, of every bundle
\* edge; a map is applied once, null stays null, the tree is unchanged.
C18_MapGraph ==
    rot.pc = "mapped" =>
        LET b == rot.before
            r == rot.now
        IN  /\ r.m_G = rot.G
            /\ r.m_n = rot.nodes[b.m_n]
            /\ r.parent = b.parent
            /\ r.knowsPartnerEdges = b.knowsPartnerEdges
            /\ \A x \in PCNodes(b.parent) :
                 /\ r.m_graphNodeForInnerNode[x] =
                        IF b.m_graphNodeForInnerNode[x] = nullptr THEN nullptr
                        ELSE rot.nodes[b.m_graphNodeForInnerNode[x]]
                 /\ r.m_incidentEdgeForLeaf[x] =
                        IF b.m_incidentEdgeForLeaf[x] = nullptr THEN nullptr
                        ELSE rot.edges[b.m_incidentEdgeForLeaf[x]]
                 /\ Len(r.m_bundleEdgesForLeaf[x]) = Len(b.m_bundleEdgesForLeaf[x])
                 /\ \A i \in 1..Len(b.m_bundleEdgesForLeaf[x]) :
                        r.m_bundleEdgesForLeaf[x][i] =
                            IF b.knowsPartnerEdges
                            THEN rot.edges[b.m_bundleEdgesForLeaf[x][i]]
                            ELSE b.m_bundleEdgesForLeaf[x][i]

C18_Witness ==
    /\ rot.pc = "mapped"
    /\ Cardinality(PCNodes(rot.before.parent)) = 3
    /\ Len(getLeaves(rot.before.parent)) = 2
    /\ rot.before.knowsPartnerEdges
    /\ \E x \in PCNodes(rot.before.parent) :
         rot.before.m_graphNodeForInnerNode[x] = nullptr
    /\ \E x \in PCNodes(rot.before.parent) :
         /\ rot.before.m_graphNodeForInnerNode[x] # nullptr
         /\ rot.now.m_graphNodeForInnerNode[x] # rot.before.m_graphNodeForInnerNode[x]
    /\ \E x \in Range(getLeaves(rot.before.parent)) :
         /\ rot.before.m_incidentEdgeForLeaf[x] # nullptr
         /\ rot.now.m_incidentEdgeForLeaf[x] # rot.before.m_incidentEdgeForLeaf[x]

\* C20: whatever next() and append(n) calls have been made, next() only on a
\* valid search, the assertion of next() has not failed and, while the search
\* is valid, its current node is not marked visited.
C20_CurrentUnvisited ==
    bfs.pc = "running" =>
        /\ bfs.fault = "none"
        /\ valid(bfs) => ~bfs.m_visited[current(bfs)]

C20_Witness ==
    /\ bfs.pc = "running"
    /\ bfs.remarked
    /\ Len(bfs.m_pending) >= 3
    /\ \E i \in 1..Len(bfs.m_pending) : \E j \in 1..Len(bfs.m_pending) :
         i < j /\ bfs.m_pending[i] = bfs.m_pending[j]
    /\ \E n \in InputNodes : bfs.m_visited[n] /\ n \in Range(bfs.m_pending)


\* The nodes a search from the set S reaches: S itself, and the twin node of
\* every entry the visit filter accepts at a reached node the descend filter
\* accepts.
RECURSIVE filteredClosure(_, _)
filteredClosure(b, S) ==
    LET T == S \cup {twinNode(b.G, a) :
                        a \in {x \in entriesOfGraph(b.G) \cap b.m_visit :
                                 theNode(b.G, x) \in S \cap b.m_descend}}
    IN  IF T = S THEN S ELSE filteredClosure(b, T)

\* C21: without append(), the nodes yielded by next() are pairwise different;
\* with the filters the search was built with they all lie in the filtered
\* closure of the start nodes, and once the search is no longer valid they
\* are exactly that closure (a node the descend filter rejects is yielded,
\* its neighbours are not queued from it).
C21_YieldsClosure ==
    (bfs.pc = "running" /\ bfs.appends = 0) =>
        /\ \A i, j \in 1..Len(bfs.yielded) : bfs.yielded[i] = bfs.yielded[j] => i = j
        /\ ~bfs.refiltered =>
             /\ Range(bfs.yielded) \subseteq filteredClosure(bfs, Range(bfs.start))
             /\ ~valid(bfs) =>
                  Range(bfs.yielded) = filteredClosure(bfs, Range(bfs.start))

\* A finished search without append() that yielded node 0, which the descend
\* filter rejects, and another node, and left a neighbour of node 0 unvisited
\* although the visit filter accepts the entry leading to it.
C21_Witness ==
    /\ bfs.pc = "running" /\ bfs.appends = 0 /\ ~bfs.refiltered /\ ~valid(bfs)
    /\ Len(bfs.yielded) >= 2
    /\ 0 \in Range(bfs.yielded) /\ 0 \notin bfs.m_descend
    /\ \E a \in Range(bfs.G.adj[0]) \cap bfs.m_visit :
          twinNode(bfs.G, a) \notin Range(bfs.yielded)

\* C22: without append(), next() is called at most |V| times, after |V| calls
\* the search is not valid, it does become invalid for good, and an iterator on
\* the search equals the end iterator exactly when the search is not valid.
C22_Terminates ==
    /\ [](bfs.pc = "running" =>
            /\ Len(bfs.yielded) <= Cardinality(DOMAIN bfs.G.adj)
            /\ Len(bfs.yielded) = Cardinality(DOMAIN bfs.G.adj) => ~valid(bfs)
            /\ iteratorEquals(bfs, begin, end) = ~valid(bfs)
            /\ iteratorEquals(bfs, end, begin) = ~valid(bfs)
            /\ iteratorDiffers(bfs, begin, end) = valid(bfs))
    /\ <>[](bfs.pc = "running" /\ ~valid(bfs))

\* A search that ended after exactly |V| calls of next(), its iterator equal
\* to the end iterator.
C22_Witness ==
    /\ bfs.pc = "running" /\ bfs.appends = 0 /\ ~valid(bfs)
    /\ Len(bfs.yielded) = Cardinality(DOMAIN bfs.G.adj)
    /\ iteratorEquals(bfs, begin, end)

\* The position of cluster c in the frozen list.
frozenAt(c) == CHOOSE i \in 1..Len(op) : op[i].index = c

\* C24: once the record is built the frozen list has one entry per cluster,
\* the root first and every parent before its children, in the reverse of the
\* post-order; the constructor's reverse iterator stands on the entry of the
\* cluster it takes next, every cluster taken so far has the index of its gray
\* node cn as parent_node, every other entry and the root still have -1, and
\* none of the alignment assertions fails, in the constructor or in undo.
C24_FrozenAligned ==
    pc \notin {"idle", "SyncPlan"} =>
        /\ [i \in 1..Len(op) |-> op[i].index] = SeqRev(postOrder(parent, Root))
        /\ \A c \in Clusters(parent) :
              Cardinality({i \in 1..Len(op) : op[i].index = c}) = 1
        /\ op[1].index = Root /\ op[1].parent = NoIndex /\ op[1].parent_node = NoIndex
        /\ \A c \in nonRoot :
              /\ op[frozenAt(c)].parent = parent[c]
              /\ frozenAt(parent[c]) < frozenAt(c)
              /\ op[frozenAt(c)].parent_node =
                    IF c \in Range(processed) THEN pipeOf[c][1] ELSE NoIndex
        /\ constructing =>
              /\ fc_it = Len(op) - Len(processed)
              /\ todo # <<>> => op[fc_it].index = Head(todo)
        /\ fault \notin {"OGDF_ASSERT fc_it", "OGDF_ASSERT frozen cluster"}
        /\ pc \in {"makeReduced", "solveReduced", "embed", "undo", "embedded"} =>
              Range(processed) = nonRoot

\* A constructed instance over a chain of three clusters, every non-root entry
\* holding its gray node.
C24_Witness ==
    /\ pc = "makeReduced"
    /\ Cardinality(nonRoot) = 2
    /\ \E c \in nonRoot : parent[c] # Root
    /\ \A c \in nonRoot : op[frozenAt(c)].parent_node = pipeOf[c][1]
    /\ fc_it = 0

\* The undo loop has run over the whole frozen list.
allRestored == pc = "embedded" \/ (pc = "undo" /\ undoPos > Len(op))

\* C25: once undo has restored all clusters, every entry in a non-root
\* cluster's adjEntries belongs to an edge of the graph, the edge it belongs to
\* is a whole input edge again, ending at input nodes, the assertion on the
\* registered edges does not fail, and no gray node and no pipe is left.
C25_EntriesAlive ==
    /\ fault # "OGDF_ASSERT edge_reg"
    /\ allRestored =>
         /\ \A c \in nonRoot : \A i \in 1..Len(CG.adjEntries[c]) :
               /\ CG.adjEntries[c][i][1] \in DOMAIN G.ends
               /\ G.ends[CG.adjEntries[c][i][1]] \in InputNodes \X InputNodes
         /\ DOMAIN G.adj = InputNodes
         /\ matchings = {}
         /\ Cardinality(DOMAIN G.ends) = Len(input.edges)

\* A restored chain of three clusters with an edge from the innermost cluster
\* to the root, joined twice, with an entry in the list of either cluster.
C25_Witness ==
    /\ pc = "embedded"
    /\ Cardinality(nonRoot) = 2
    /\ \E c \in nonRoot : parent[c] # Root
    /\ \E e \in DOMAIN G.ends :
         \A c \in nonRoot :
            /\ e \in crossingEdges(inputGraph, parent, input.assign, c)
            /\ \E i \in 1..Len(CG.adjEntries[c]) : CG.adjEntries[c][i][1] = e

\* C28: right after construction the undo stack holds two records,
\* ResetIndices at the bottom and UndoInitCluster on top, the one
\* UndoInitCluster record freezing every cluster of the hierarchy; a rollback
\* pops UndoInitCluster first, so the clusters are restored while ResetIndices
\* is still on the stack, and ResetIndices goes last.
C28_TwoRecords ==
    /\ pc = "makeReduced" =>
         /\ Len(undo_stack) = 2
         /\ undo_stack[1] = "ResetIndices"
         /\ undo_stack[2] = "UndoInitCluster"
         /\ {op[i].index : i \in 1..Len(op)} = Clusters(parent)
    /\ Cardinality({i \in 1..Len(undo_stack) : undo_stack[i] = "UndoInitCluster"}) <= 1
    /\ pc = "undo" => undo_stack = <<"ResetIndices">>
    /\ pc = "embedded" => undo_stack = <<>>

\* A freshly constructed instance over root and two sibling clusters.
C28_Witness ==
    /\ pc = "makeReduced"
    /\ mr = "none"
    /\ Len(undo_stack) = 2
    /\ Cardinality(nonRoot) = 2
    /\ \A c \in nonRoot : parent[c] = Root

\* C23: after any sequence of pushBack, insertAfter, insertBefore, del, swap
\* and reverse (and of sort, permute and clear, the other operations that
\* rewrite the links) the list passes consistencyCheck, size() is the number of
\* elements reachable from the head, and those are the elements inserted and
\* not removed.
C23_ListConsistent ==
    list.pc = "running" =>
        /\ consistencyCheck(list)
        /\ list.fault = "none"
        /\ size(list) = Len(walk(list))
        /\ Range(walk(list)) = list.members
        /\ Len(walk(list)) = Cardinality(list.members)

\* A list of two elements whose order was turned round after element 3 had
\* been removed from between them: element 3 still has the links it had.
C23_Witness ==
    /\ list.pc = "running"
    /\ walk(list) = <<2, 1>>
    /\ size(list) = 2
    /\ list.m_prev[3] = 1 /\ list.m_next[3] = 2

\* x + w > y for a width w >= 0, computed without leaving the ints.
endsAfter(x, w, y) ==
    IF x < 0 THEN x + w > y
    ELSE IF y < x THEN TRUE
    ELSE w > y - x

\* The interiors of the boxes a and b, placed at their offsets, intersect.
overlap(a, b) ==
    /\ packer.box[a].m_x > 0 /\ packer.box[a].m_y > 0
    /\ packer.box[b].m_x > 0 /\ packer.box[b].m_y > 0
    /\ endsAfter(packer.offset[a].m_x, packer.box[a].m_x, packer.offset[b].m_x)
    /\ endsAfter(packer.offset[b].m_x, packer.box[b].m_x, packer.offset[a].m_x)
    /\ endsAfter(packer.offset[a].m_y, packer.box[a].m_y, packer.offset[b].m_y)
    /\ endsAfter(packer.offset[b].m_y, packer.box[b].m_y, packer.offset[a].m_y)

\* The boxes of all rows, first row first, in the order they were placed in.
RECURSIVE placedIn(_)
placedIn(row) == IF row = <<>> THEN <<>> ELSE Head(row).m_boxes \o placedIn(Tail(row))

\* The rows are as the claim describes them: every box is in one row, rows
\* are not empty, a row is as high as its first box and its boxes come in
\* the sorted order.
rowsAsClaimed ==
    /\ Len(placedIn(packer.row)) = Len(packer.box)
    /\ Range(placedIn(packer.row)) = 1..Len(packer.box)
    /\ \A r \in 1..Len(packer.row) :
         LET boxes == packer.row[r].m_boxes
         IN  /\ boxes # <<>>
             /\ packer.row[r].m_maxHeight = packer.box[Head(boxes)].m_y
             /\ \A k \in 1..(Len(boxes) - 1) :
                   packer.box[boxes[k]].m_y >= packer.box[boxes[k + 1]].m_y
    /\ Len(packer.box) > 0 =>
         (Len(packer.row) > 0 /\ Head(packer.row[1].m_boxes) = packer.sortedIndices[1])

\* The left edge of every box but the first of a row is the right edge of the
\* box before it, and a row starts at x = 0 and at the sum of the heights of
\* the rows before it.
offsetsCumulative ==
    \A r \in 1..Len(packer.row) :
        LET boxes == packer.row[r].m_boxes
        IN  /\ packer.offset[Head(boxes)].m_x = 0
            /\ \A k \in 1..Len(boxes) :
                  packer.offset[boxes[k]].m_y = totalHeightOf(SubSeq(packer.row, 1, r - 1))
            /\ \A k \in 1..(Len(boxes) - 1) :
                  /\ ~addOverflows(packer.offset[boxes[k]].m_x, packer.box[boxes[k]].m_x)
                  /\ packer.offset[boxes[k + 1]].m_x =
                        packer.offset[boxes[k]].m_x + packer.box[boxes[k]].m_x

\* C27 as stated: for every array of boxes with non-negative integer sides
\* and every page ratio, call places the boxes in decreasing order of height,
\* the first box opens a row, every row is as high as its first box, boxes of
\* a row sit at cumulative x offsets and rows at cumulative y offsets, and no
\* two boxes overlap.
C27_NoOverlap ==
    packer.pc = "done" =>
        /\ rowsAsClaimed
        /\ offsetsCumulative
        /\ \A a, b \in 1..Len(packer.box) : a # b => ~overlap(a, b)

\* The same for calls in which no sum and no square leaves the ints.
C27_NoOverlapInRange ==
    (packer.pc = "done" /\ ~packer.overflow
        /\ \A r \in 1..Len(packer.row) : packer.row[r].m_width >= 0) => C27_NoOverlap

\* The call has left the loop of bounds.
shaped == shaper.pc \in {"NoFlow", "flow"}

\* The bounds were tried one by one from the first bound on, and only the
\* last one tried can have given a flow.
triedInOrder ==
    /\ \A k \in 1..Len(shaper.tried) :
         /\ shaper.tried[k] =
               firstBound(shaper.m_startBoundBendsPerEdge, shaper.numberOfEdges) + k - 1
         /\ shaper.tried[k] <= lastBound(shaper.numberOfEdges)
         /\ k < Len(shaper.tried) => ~flowModuleCall(shaper.minBound, shaper.tried[k])
    /\ shaper.isFlow =
         (shaper.tried # <<>>
            /\ flowModuleCall(shaper.minBound, shaper.tried[Len(shaper.tried)]))

\* C26 as stated: the bounds are tried in increasing order from
\* m_startBoundBendsPerEdge on (the one bound 4 * |E| if the option is 0), the
\* loop stops at the first bound with a flow, and the call throws NoFlow
\* exactly when the option is positive and there is no flow for 4 * |E|.
C26_ThrowsIffInfeasible ==
    /\ shaper.pc \in {"loop", "NoFlow", "flow"} => triedInOrder
    /\ shaped =>
         /\ shaper.m_startBoundBendsPerEdge = 0 =>
               shaper.tried = <<lastBound(shaper.numberOfEdges)>>
         /\ shaper.m_startBoundBendsPerEdge > 0 =>
               (shaper.tried # <<>>
                  /\ shaper.tried[1] = shaper.m_startBoundBendsPerEdge)
         /\ (shaper.pc = "NoFlow") =
               (shaper.m_startBoundBendsPerEdge > 0
                  /\ ~flowModuleCall(shaper.minBound, lastBound(shaper.numberOfEdges)))

\* The same for options up to 4 * |E|.
C26_ThrowsIffInfeasibleInRange ==
    shaper.pc \in {"loop", "NoFlow", "flow"}
        /\ shaper.m_startBoundBendsPerEdge <= lastBound(shaper.numberOfEdges)
    => C26_ThrowsIffInfeasible

====
